---- MODULE Spec2Model ----
(***************************************************************************)
(* A model of the Odoo <-> Shore POS synchroniser                          *)
(* (shorepos_sync/models/models.py, shorepos_sync/models/shorepos_models.py). *)
(*                                                                         *)
(* Conventions.  Odoo's False/None of a field is 0; timestamps are the     *)
(* positive integers 1..; remote ids are positive integers; a Char field   *)
(* that holds a remote id holds that integer (Odoo stores str(id) and the  *)
(* code reads it back with int(), models.py:507).  The store identifier of *)
(* the active configuration is OwnStore; ForeignStore is any other value.  *)
(***************************************************************************)
EXTENDS Integers, Sequences, FiniteSets, TLC

----------------------------------------------------------------------------
(* Bounds of the model *)

MaxTime == 2           \* the clock runs 1..MaxTime
MaxRuns == 2           \* invocations of shorepos_sync in one behaviour
MaxRemoteId == 3       \* ids the remote can hand out
MaxQty == 1            \* stock quantities 0..MaxQty
MaxExpiresIn == 1      \* expires_in values the token endpoint returns
MaxToken == 1          \* token values 1..MaxToken

(* Program constants *)

HTTP_OK == 200
HTTP_NOT_FOUND == 404
HTTP_TOO_MANY == 429
HTTP_SERVER_ERROR == 500
MaxCodeLen == 30

NoCode == "False"       \* a default_code that is not set
EmptyString == ""
Skus == {"sku-a", "sku-b"}

NoStore == "none"
OwnStore == "store-a"
ForeignStore == "store-b"

VARIABLES
    now,      \* fields.Datetime.now()
    config,   \* the shorepos.configuration record
    tmpl,     \* product.template rows
    prod,     \* product.product rows
    quant,    \* stock.quant rows at the configured warehouse location
    remote,   \* the remote catalogue
    logs,     \* shorepos.sync.log and shorepos.stock.sync.log
    queue,    \* queue_job: the chains submitted and not finished
    job,      \* the job the worker is running
    calls,    \* the remote calls of the running (or last) job, in order
    trace,    \* per run, the stage events ("start"/"done"/"failed") in order
    inv,      \* the last invocation of shorepos_sync: what it did
    last      \* the last iteration of a stage's loop: what it read and did

vars == <<now, config, tmpl, prod, quant, remote, logs, queue, job, calls, trace, inv, last>>

----------------------------------------------------------------------------
(* Helpers *)

Max2(a, b) == IF a >= b THEN a ELSE b

Max3(a, b, c) == Max2(Max2(a, b), c)

Merge(rec, vals) == [k \in DOMAIN rec |-> IF k \in DOMAIN vals THEN vals[k] ELSE rec[k]]

Statuses == {HTTP_OK, HTTP_NOT_FOUND, HTTP_TOO_MANY, HTTP_SERVER_ERROR}

----------------------------------------------------------------------------
(* The configuration and the token *)

RequiredSettings == {"store_identifier", "api_endpoint_url", "client_id", "client_secret", "timeout"}

\* The responses of POST /auth/token/: a status and the three fields the code reads.
TokenResponses ==
    [status : {HTTP_OK, HTTP_SERVER_ERROR},
     access_token : 0..MaxToken,
     refresh_token : 0..MaxToken,
     expires_in : 0..MaxExpiresIn]

\* A precondition that does not look at the refresh token.
settings_missing_but_refresh(cfg) == cfg.unset # {}

\* Lines 240-247: one of the store identifier, the endpoint URL, the client
\* id, the client secret, the refresh token and the timeout is empty.
settings_missing(cfg) == cfg.unset # {} \/ cfg.settings_shorepos_refresh_token = 0

\* A check that accepts every 200 answer.
token_missing_never(resp) == FALSE

\* Line 273: the answer carries no access token.
token_missing(resp) == resp.access_token = 0

\* Values that never take over the refresh token of the answer.
token_api_data_keeps_refresh(cfg, resp, t) ==
    [settings_shorepos_access_token |-> resp.access_token]
    @@ (IF resp.expires_in # 0
        THEN [settings_shorepos_token_expiry_date |-> t + resp.expires_in] ELSE <<>>)

\* Lines 277-284: the values a successful refresh writes.
token_api_data(cfg, resp, t) ==
    [settings_shorepos_access_token |-> resp.access_token]
    @@ (IF resp.refresh_token # 0 /\ resp.refresh_token # cfg.settings_shorepos_refresh_token
        THEN [settings_shorepos_refresh_token |-> resp.refresh_token] ELSE <<>>)
    @@ (IF resp.expires_in # 0
        THEN [settings_shorepos_token_expiry_date |-> t + resp.expires_in] ELSE <<>>)

RECURSIVE shorepos_token_get(_, _, _)
RECURSIVE config_write(_, _, _, _, _)

\* ShoreposConnector.shorepos_token_get: the result is the configuration afterwards,
\* the returned value ("False", "None") or "raise", and the token requests made.
shorepos_token_get(cfg, resp, t) ==
    IF settings_missing(cfg)
    THEN [config |-> cfg, ret |-> "False", posts |-> 0, gets |-> 1]
    ELSE IF resp.status # HTTP_OK
    THEN [config |-> cfg, ret |-> "raise", posts |-> 1, gets |-> 1]
    ELSE IF token_missing(resp)
    THEN [config |-> cfg, ret |-> "False", posts |-> 1, gets |-> 1]
    ELSE LET api_data == token_api_data(cfg, resp, t)
             w == config_write(cfg, api_data, [ir_cron |-> FALSE, skip_token_refresh_write |-> TRUE], resp, t)
         IN  [config |-> w.config, ret |-> "None", posts |-> 1 + w.posts, gets |-> 1 + w.gets]

\* ShoreposConnector.write: a plain write under the cron or the skip context,
\* otherwise the write is followed by a token refresh.
config_write(cfg, values, ctx, resp, t) ==
    IF ctx.ir_cron \/ ctx.skip_token_refresh_write
    THEN [config |-> Merge(cfg, values), ret |-> "True", posts |-> 0, gets |-> 0]
    ELSE shorepos_token_get(Merge(cfg, values), resp, t)

\* A gate that lets a token pass at the instant it expires.
TokenExpiredAfter(cfg, t) ==
    \/ cfg.settings_shorepos_token_expiry_date = 0
    \/ t > cfg.settings_shorepos_token_expiry_date

\* Line 199: the expiry is unset, or not later than now.
TokenExpired(cfg, t) ==
    \/ cfg.settings_shorepos_token_expiry_date = 0
    \/ t >= cfg.settings_shorepos_token_expiry_date

----------------------------------------------------------------------------
(* The chain of jobs of one sync run *)

Stages == {"delete", "push", "stock", "stock_log", "log"}

\* A chain that reconciles the stock before the products are pushed.
SyncChainStockFirst(cfg) ==
    (IF cfg.settings_shorepos_products_stock_management THEN <<"stock", "stock_log">> ELSE <<>>)
    \o (IF cfg.settings_odoo_to_shorepos_products_sync THEN <<"delete", "push">> ELSE <<>>)
    \o <<"log">>

\* ShoreposConnector.shorepos_sync, lines 202-220: the jobs of the chain, in order.
SyncChain(cfg) ==
    (IF cfg.settings_odoo_to_shorepos_products_sync THEN <<"delete", "push">> ELSE <<>>)
    \o (IF cfg.settings_shorepos_products_stock_management THEN <<"stock", "stock_log">> ELSE <<>>)
    \o <<"log">>

----------------------------------------------------------------------------
(* The catalogue *)

\* Two products: template 1 is a simple product (variant 1), template 2 a
\* variable product (variants 2 and 3).
Templates == {1, 2}

Variants == {1, 2, 3}

\* product.product.product_tmpl_id
product_tmpl_id(v) == IF v = 1 THEN 1 ELSE 2

product_variant_ids(t) == {v \in Variants : product_tmpl_id(v) = t}

Times == 0..MaxTime

RemoteIds == 1..MaxRemoteId

\* The id the remote gives the variation sent at position k of product id.
VariationId(id, k) == id * (Cardinality(Variants) + 1) + k

RECURSIVE SortedSeq(_)
\* The records of a search, in id order.
SortedSeq(S) ==
    IF S = {} THEN <<>>
    ELSE LET m == CHOOSE x \in S : \A y \in S : x <= y
         IN  <<m>> \o SortedSeq(S \ {m})

\* models.Model.write on product.template: the values, and write_date.
tmpl_write(rec, values, t) == Merge(rec, values @@ [write_date |-> t])

----------------------------------------------------------------------------
(* The remote API *)

\* What the remote can answer to a call on product id: 200 when the product
\* exists (for a POST: when an id is left to give), 404 when it does not,
\* and 429 or 500 at any time.
ServerCan(rem, method, id, st) ==
    CASE st = HTTP_OK ->
            IF method = "post" THEN rem.allocated < MaxRemoteId ELSE rem.exists[id]
      [] st = HTTP_NOT_FOUND -> method # "post" /\ ~rem.exists[id]
      [] OTHER -> TRUE

NoBody == [id |-> 0, variations |-> <<>>]

\* ShoreposConnector.shorepos_api_request: raise_for_status raises on every
\* status that is not a success, 429 included; otherwise the body is returned.
shorepos_api_request(st, body) ==
    [raised |-> st # HTTP_OK, status |-> st, body |-> IF st = HTTP_OK THEN body ELSE NoBody]

Call(method, endpoint, id, t, r) ==
    [method |-> method, endpoint |-> endpoint, id |-> id, tmpl |-> t,
     status |-> r.status, raised |-> r.raised]

----------------------------------------------------------------------------
(* queue_job: chains and the worker *)

NoStep == [op |-> "none"]

Idle == [stage |-> "idle", run |-> 0, pc |-> "idle", todo |-> <<>>, map |-> <<>>, updated |-> <<>>]

RemoveAt(seq, i) == SubSeq(seq, 1, i - 1) \o SubSeq(seq, i + 1, Len(seq))

\* ShoreposConnector.odoo_to_shorepos_products_delete, lines 654-657: the search.
DeleteSelection ==
    {t \in Templates :
        /\ tmpl[t].shorepos_store_identifier = config.settings_shorepos_store_identifier
        /\ ~tmpl[t].sync_to_shorepos
        /\ tmpl[t].shorepos_id # 0}

\* ShoreposConnector.odoo_to_shorepos_products_sync, lines 682-688: the products
\* the two searches reach (no language filter is configured).
PushSearch ==
    {t \in Templates :
        /\ tmpl[t].sync_to_shorepos
        /\ tmpl[t].default_code_len # 0
        /\ \/ tmpl[t].active
           \/ \E v \in product_variant_ids(t) : prod[v].active /\ prod[v].default_code # NoCode}

\* A filter that also keeps a product written at the instant of its push.
PushSelectionInclusive ==
    {t \in PushSearch :
        \/ tmpl[t].odoo_to_shorepos_last_sync = 0
        \/ tmpl[t].odoo_to_shorepos_last_sync <= tmpl[t].write_date}

\* Line 691: never synced, or modified since the last push.
PushSelection ==
    {t \in PushSearch :
        \/ tmpl[t].odoo_to_shorepos_last_sync = 0
        \/ tmpl[t].odoo_to_shorepos_last_sync < tmpl[t].write_date}

StageSelection(stage) ==
    CASE stage = "delete" -> SortedSeq(DeleteSelection)
      [] stage = "push" -> SortedSeq(PushSelection)
      [] OTHER -> <<>>

\* The worker takes the first job of a chain: a job of a chain is runnable only
\* when the jobs before it in the chain are done.
StartJob(i) ==
    /\ job.stage = "idle"
    /\ i \in 1..Len(queue)
    /\ LET c == queue[i]
           stage == Head(c.todo)
       IN  /\ job' = [Idle EXCEPT !.stage = stage, !.run = c.run, !.pc = "run",
                                  !.todo = StageSelection(stage)]
           /\ trace' = [trace EXCEPT ![c.run] = Append(@, <<stage, "start">>)]
    /\ UNCHANGED <<now, config, tmpl, prod, quant, remote, logs, queue, calls, inv, last>>

\* The queue delivers a job at least once: a stage is executed again on its
\* own, outside a chain (run 0).
RunStage(stage) ==
    /\ job.stage = "idle"
    /\ queue = <<>>
    /\ job' = [Idle EXCEPT !.stage = stage, !.pc = "run", !.todo = StageSelection(stage)]
    /\ UNCHANGED <<now, config, tmpl, prod, quant, remote, logs, queue, calls, trace, inv, last>>

ChainOf(run) == CHOOSE i \in 1..Len(queue) : queue[i].run = run

\* The job returned: it is done and the next job of its chain becomes runnable.
FinishJob ==
    /\ job.stage # "idle"
    /\ job.pc = "done"
    /\ IF job.run = 0 THEN UNCHANGED <<queue, trace>>
       ELSE LET i == ChainOf(job.run)
            IN  /\ queue' = IF Len(queue[i].todo) = 1 THEN RemoveAt(queue, i)
                             ELSE [queue EXCEPT ![i].todo = Tail(@)]
                /\ trace' = [trace EXCEPT ![job.run] = Append(@, <<job.stage, "done">>)]
    /\ job' = Idle
    /\ calls' = <<>>
    /\ last' = NoStep
    /\ UNCHANGED <<now, config, tmpl, prod, quant, remote, logs, inv>>

\* The job raised: it is failed, and the jobs that depend on it never run.
FailJob ==
    /\ job.stage # "idle"
    /\ job.pc = "failed"
    /\ IF job.run = 0 THEN UNCHANGED <<queue, trace>>
       ELSE /\ queue' = RemoveAt(queue, ChainOf(job.run))
            /\ trace' = [trace EXCEPT ![job.run] = Append(@, <<job.stage, "failed">>)]
    /\ job' = Idle
    /\ calls' = <<>>
    /\ last' = NoStep
    /\ UNCHANGED <<now, config, tmpl, prod, quant, remote, logs, inv>>

----------------------------------------------------------------------------
(* shorepos_sync *)

Runs == 1..MaxRuns

RunsStarted == Cardinality({r \in Runs : trace[r] # <<>>})

\* ShoreposConnector.shorepos_sync: the token gate, then the chain.
shorepos_sync ==
    /\ inv.count < MaxRuns
    /\ IF TokenExpired(config, now)
       THEN \E resp \in TokenResponses :
                LET r == shorepos_token_get(config, resp, now)
                IN  /\ config' = r.config
                    /\ inv' = [count |-> inv.count + 1, expired |-> TRUE, token_gets |-> r.gets,
                               token_posts |-> r.posts, ret |-> r.ret, enqueued |-> <<>>]
                    /\ UNCHANGED <<queue, trace>>
       ELSE LET jobs == SyncChain(config)
                run == inv.count + 1
            IN  /\ queue' = IF jobs # <<>> THEN Append(queue, [run |-> run, todo |-> jobs]) ELSE queue
                /\ inv' = [count |-> run, expired |-> FALSE, token_gets |-> 0,
                           token_posts |-> 0, ret |-> "None", enqueued |-> jobs]
                /\ trace' = [trace EXCEPT ![run] = <<<<"sync", "submitted">>>>]
                /\ UNCHANGED config
    /\ UNCHANGED <<now, tmpl, prod, quant, remote, logs, job, calls, last>>

----------------------------------------------------------------------------
(* The log stages *)

LogModels == {"shorepos.sync.log", "shorepos.stock.sync.log"}

\* A log that gets a new row with every execution.
update_sync_last_log_append(rows, t) == Append(rows, t)

\* ShoreposConnector.update_sync_last_log: the rows of the log model afterwards.
update_sync_last_log(rows, t) ==
    IF rows # <<>> THEN [rows EXCEPT ![1] = t] ELSE Append(rows, t)

LogModelOf(stage) == IF stage = "stock_log" THEN "shorepos.stock.sync.log" ELSE "shorepos.sync.log"

LogStage ==
    /\ job.stage \in {"stock_log", "log"}
    /\ job.pc = "run"
    /\ logs' = [logs EXCEPT ![LogModelOf(job.stage)] = update_sync_last_log(@, now)]
    /\ job' = [job EXCEPT !.pc = "done"]
    /\ UNCHANGED <<now, config, tmpl, prod, quant, remote, queue, calls, trace, inv, last>>

----------------------------------------------------------------------------
(* The delete stage *)

\* A clearing that resets the timestamps and keeps the external id.
ClearedTimestampsOnly ==
    [odoo_to_shorepos_last_sync |-> 0, shorepos_stock_last_sync |-> 0]

\* Lines 664 and 673: the values written to a deleted product.
ClearedLinkage ==
    [shorepos_store_identifier |-> NoStore, shorepos_id |-> 0,
     odoo_to_shorepos_last_sync |-> 0, shorepos_stock_last_sync |-> 0]

\* A loop that clears the linkage after every answer, errors included.
delete_product_always(rec, r, t) ==
    [rec |-> tmpl_write(rec, ClearedLinkage, t), propagated |-> FALSE]

\* A loop that clears the linkage only when the DELETE succeeds.
delete_product_success_only(rec, r, t) ==
    IF ~r.raised THEN [rec |-> tmpl_write(rec, ClearedLinkage, t), propagated |-> FALSE]
    ELSE [rec |-> rec, propagated |-> FALSE]

\* One iteration of the loop of odoo_to_shorepos_products_delete (lines 659-677):
\* the product record afterwards, given the answer r of the DELETE request.
\* `propagated` says whether the iteration lets an exception out of the loop.
delete_product(rec, r, t) ==
    IF ~r.raised THEN [rec |-> tmpl_write(rec, ClearedLinkage, t), propagated |-> FALSE]
    ELSE IF r.status = HTTP_NOT_FOUND THEN [rec |-> tmpl_write(rec, ClearedLinkage, t), propagated |-> FALSE]
    ELSE [rec |-> rec, propagated |-> FALSE]

RemoteDelete(rem, id) == [rem EXCEPT !.exists[id] = FALSE]

NextPc(todo) == IF Len(todo) <= 1 THEN "done" ELSE "run"

DeleteStep ==
    /\ job.stage = "delete"
    /\ job.pc = "run"
    /\ IF job.todo = <<>>
       THEN /\ job' = [job EXCEPT !.pc = "done"]
            /\ UNCHANGED <<tmpl, remote, calls, last>>
       ELSE LET t == Head(job.todo)
                id == tmpl[t].shorepos_id
            IN  \E st \in Statuses :
                    /\ ServerCan(remote, "delete", id, st)
                    /\ LET r == shorepos_api_request(st, NoBody)
                           d == delete_product(tmpl[t], r, now)
                       IN  /\ tmpl' = [tmpl EXCEPT ![t] = d.rec]
                           /\ remote' = IF st = HTTP_OK THEN RemoteDelete(remote, id) ELSE remote
                           /\ calls' = Append(calls, Call("delete", "products", id, t, r))
                           /\ last' = [op |-> "delete", tmpl |-> t, shorepos_id |-> id,
                                       status |-> st, time |-> now]
                           /\ job' = IF d.propagated THEN [job EXCEPT !.pc = "failed"]
                                     ELSE [job EXCEPT !.todo = Tail(@), !.pc = NextPc(job.todo)]
    /\ UNCHANGED <<now, config, prod, quant, logs, queue, trace, inv>>

----------------------------------------------------------------------------
(* The push stage *)

VariantSeq(t) == SortedSeq(product_variant_ids(t))

\* product.product.qty_available: the quantity on hand of the variant.
qty_available(v) == IF quant[v].exists THEN quant[v].quantity ELSE 0

RECURSIVE SumQty(_)
SumQty(S) == IF S = {} THEN 0 ELSE LET v == CHOOSE x \in S : TRUE IN qty_available(v) + SumQty(S \ {v})

\* product.template.qty_available
tmpl_qty_available(t) == SumQty(product_variant_ids(t))

\* `default_code or ''` (lines 780-782)
CodeOrEmpty(c) == IF c = NoCode THEN EmptyString ELSE c

\* Lines 716-827: the payload, as far as the remote and the matching read it.
product_values(t) ==
    LET vs == VariantSeq(t)
    IN  [quantity |-> tmpl_qty_available(t),
         variations |->
            IF Len(vs) > 1
            THEN [k \in 1..Len(vs) |-> [product_code |-> CodeOrEmpty(prod[vs[k]].default_code),
                                        quantity |-> qty_available(vs[k])]]
            ELSE <<>>]

\* The body the remote answers a product create or update with.
ProductBody(id, payload) ==
    [id |-> id,
     variations |-> [k \in 1..Len(payload.variations) |->
                        [id |-> VariationId(id, k), product_code |-> payload.variations[k].product_code]]]

RemoteStore(rem, id, payload, t) ==
    IF id \notin RemoteIds THEN rem ELSE
    [rem EXCEPT !.exists[id] = TRUE,
                !.quantity[id] = payload.quantity,
                !.time_modified[id] = t,
                !.allocated = Max2(@, id)]

\* Line 858: the dict of the returned variations by product_code; of two
\* variations with one product_code the later one stays.  0 when there is none.
shorepos_variants_get(variations, code) ==
    LET ks == {k \in 1..Len(variations) : variations[k].product_code = code}
    IN  IF ks = {} THEN 0
        ELSE variations[CHOOSE k \in ks : \A j \in ks : j <= k].id

\* A matching by position: the k-th variant takes the id of the k-th variation.
variants_write_by_position(t, response, store, time) ==
    [v \in Variants |->
        IF /\ product_tmpl_id(v) = t
           /\ Cardinality(product_variant_ids(t)) > 1
           /\ \E k \in 1..Len(response.variations) : VariantSeq(t)[k] = v
        THEN Merge(prod[v],
                   [shorepos_store_identifier |-> store,
                    shorepos_id |-> response.variations[CHOOSE k \in 1..Len(response.variations) :
                                                            VariantSeq(t)[k] = v].id,
                    odoo_to_shorepos_last_sync |-> time])
        ELSE prod[v]]

\* Lines 857-862: the variants after the variant ids of the response are stored.
variants_write(t, response, store, time) ==
    [v \in Variants |->
        IF /\ product_tmpl_id(v) = t
           /\ Cardinality(product_variant_ids(t)) > 1
           /\ shorepos_variants_get(response.variations, prod[v].default_code) # 0
        THEN Merge(prod[v],
                   [shorepos_store_identifier |-> store,
                    shorepos_id |-> shorepos_variants_get(response.variations, prod[v].default_code),
                    odoo_to_shorepos_last_sync |-> time])
        ELSE prod[v]]

\* A product has a category, a tax or an image when the field is not 0.
\* The variants of a product carry the taxes and the image of the product.
HelpersOf(t) ==
    (IF config.settings_shorepos_images_sync /\ tmpl[t].image_1920 # 0 THEN <<"image">> ELSE <<>>)
    \o (IF tmpl[t].taxes_id # 0 THEN <<"tax">> ELSE <<>>)

RECURSIVE Repeat(_, _)
Repeat(seq, n) == IF n = 0 THEN <<>> ELSE seq \o Repeat(seq, n - 1)

\* Line 703: hasattr(odoo_product, 'categ_ids') and odoo_product.categ_ids;
\* the field exists when the multi-category module is installed, and holds
\* the number of categories of the product.
HasCategIds(t) == "categ_ids" \in DOMAIN tmpl[t] /\ tmpl[t].categ_ids # 0

\* Lines 703-708: the calls of shorepos_category_create_or_retrieve for
\* product t: two for each category of categ_ids (the condition of the
\* comprehension, then its element), otherwise one for categ_id.
CategoryCalls(t) ==
    IF HasCategIds(t) THEN 2 * tmpl[t].categ_ids
    ELSE IF tmpl[t].categ_id # 0 THEN 1 ELSE 0

\* Lines 701-713, 737, 772-774 and 797: the helpers the payload of product
\* t calls, in the order of the calls: the category, the image and the tax
\* of the product, then the image and the tax of each variant of a variable
\* product.
HelperKinds(t) ==
    Repeat(<<"category">>, CategoryCalls(t))
    \o HelpersOf(t)
    \o (IF Cardinality(product_variant_ids(t)) > 1
        THEN Repeat(HelpersOf(t), Cardinality(product_variant_ids(t)))
        ELSE <<>>)

\* The answers to the GET and to the POST of a helper: both succeed, or one
\* of them fails (after a failed GET no POST is made).
HelperStatuses ==
    {[get |-> HTTP_OK, post |-> HTTP_OK],
     [get |-> HTTP_SERVER_ERROR, post |-> HTTP_OK],
     [get |-> HTTP_OK, post |-> HTTP_SERVER_ERROR]}

\* shorepos_category_create_or_retrieve (399-422) and
\* shorepos_tax_rate_create_or_retrieve (424-449): the list is read, the
\* entry is created when the list does not hold it; shorepos_upload_image
\* (451-500): the image is posted.  Every exception ends the helper with
\* None (0).  `used` says whether the statuses are those of calls made.
resolve_helper(kind, st, rem, t) ==
    LET get == shorepos_api_request(st.get, NoBody)
        post == shorepos_api_request(st.post, NoBody)
        endpoint == CASE kind = "category" -> "categories" [] kind = "tax" -> "taxes" [] OTHER -> "images"
        known == CASE kind = "category" -> rem.category [] kind = "tax" -> rem.tax [] OTHER -> 0
        created == CASE kind = "category" -> [rem EXCEPT !.category = 1]
                     [] kind = "tax" -> [rem EXCEPT !.tax = 1]
                     [] OTHER -> rem
    IN  IF kind = "image"
        THEN [calls |-> <<Call("post", endpoint, 0, t, post)>>,
              id |-> IF post.raised THEN 0 ELSE 1,
              remote |-> rem, used |-> st.get = HTTP_OK]
        ELSE IF get.raised
        THEN [calls |-> <<Call("get", endpoint, 0, t, get)>>, id |-> 0, remote |-> rem,
              used |-> st.post = HTTP_OK]
        ELSE IF known # 0
        THEN [calls |-> <<Call("get", endpoint, 0, t, get)>>, id |-> known, remote |-> rem,
              used |-> st.post = HTTP_OK]
        ELSE [calls |-> <<Call("get", endpoint, 0, t, get), Call("post", endpoint, 0, t, post)>>,
              id |-> IF post.raised THEN 0 ELSE 1,
              remote |-> IF post.raised THEN rem ELSE created, used |-> TRUE]

RECURSIVE resolve_helpers(_, _, _, _)
\* The helpers of a payload, one after the other.
resolve_helpers(kinds, sts, rem, t) ==
    IF kinds = <<>> THEN [calls |-> <<>>, ids |-> <<>>, remote |-> rem, used |-> TRUE]
    ELSE LET h == resolve_helper(Head(kinds), Head(sts), rem, t)
             rest == resolve_helpers(Tail(kinds), Tail(sts), h.remote, t)
         IN  [calls |-> h.calls \o rest.calls, ids |-> <<h.id>> \o rest.ids,
              remote |-> rest.remote, used |-> h.used /\ rest.used]

RECURSIVE categories_of(_, _)
\* Line 704: an entry {'id': <second call>} for each category whose first
\* call returned an id; ids holds the results of the calls, two a category.
categories_of(n, ids) ==
    IF n = 0 THEN <<>>
    ELSE categories_of(n - 1, ids)
         \o (IF ids[2 * n - 1] # 0 THEN <<[id |-> ids[2 * n]]>> ELSE <<>>)

\* A payload that keeps the entry of a category, of a tax and of an image
\* that were not resolved.
payload_refs_keep(t, ids) ==
    LET n == CategoryCalls(t)
        image == config.settings_shorepos_images_sync /\ tmpl[t].image_1920 # 0
    IN  [categories |-> IF n = 0 THEN <<>> ELSE <<[id |-> ids[n]]>>,
         images |-> IF image THEN <<[id |-> ids[n + 1]]>> ELSE <<>>,
         tax_type |-> IF tmpl[t].taxes_id # 0 THEN ids[n + (IF image THEN 2 ELSE 1)] ELSE 0]

\* Lines 701-713 and 737-740: the references of the payload of product t to
\* its categories, its image and its tax, from the results `ids` of the
\* helpers in the order of HelperKinds; <<>> and 0 stand for None.
payload_refs(t, ids) ==
    LET n == CategoryCalls(t)
        image == config.settings_shorepos_images_sync /\ tmpl[t].image_1920 # 0
    IN  [categories |-> IF HasCategIds(t) THEN categories_of(tmpl[t].categ_ids, ids)
                        ELSE IF n = 1 /\ ids[1] # 0 THEN <<[id |-> ids[1]]>> ELSE <<>>,
         images |-> IF image /\ ids[n + 1] # 0 THEN <<[id |-> ids[n + 1]]>> ELSE <<>>,
         tax_type |-> IF tmpl[t].taxes_id # 0 THEN ids[n + (IF image THEN 2 ELSE 1)] ELSE 0]

\* A check that lets a code of 31 characters pass.
code_too_long_from_32(rec) == rec.default_code_len # 0 /\ rec.default_code_len > MaxCodeLen + 1

\* Line 695: the product has a default_code of more than 30 characters.
code_too_long(rec) == rec.default_code_len # 0 /\ rec.default_code_len > MaxCodeLen

\* A write of the linkage that does not wait for the answer.
push_write_unconditional(rec, response, store, t) ==
    tmpl_write(rec, [shorepos_store_identifier |-> store,
                     shorepos_id |-> response.body.id,
                     odoo_to_shorepos_last_sync |-> t], t)

\* Lines 848-854: the linkage is written when the request returned; an
\* exception of the request leaves the try block before the write.
push_write(rec, response, store, t) ==
    IF response.raised THEN rec
    ELSE tmpl_write(rec, [shorepos_store_identifier |-> store,
                          shorepos_id |-> response.body.id,
                          odoo_to_shorepos_last_sync |-> t], t)

\* A fallback that creates the product after any failed update.
needs_post_any_error(put, r1) == ~put \/ r1.raised

\* Lines 830-846: a product without external id is created; a product with
\* one is updated, and created when the update answers 404.
needs_post(put, r1) == ~put \/ (r1.raised /\ r1.status = HTTP_NOT_FOUND)

\* Lines 701-862 for product t, the helpers answered sts, the PUT st1 and
\* the POST st2: the calls made, the remote afterwards and the records
\* afterwards.
push_product(t, sts, st1, st2) ==
    LET id0 == tmpl[t].shorepos_id
        helpers == resolve_helpers(HelperKinds(t), sts, remote, t)
        payload == product_values(t)
        put == id0 # 0
        r1 == shorepos_api_request(st1, IF put THEN ProductBody(id0, payload) ELSE NoBody)
        rem1 == IF put /\ ~r1.raised THEN RemoteStore(helpers.remote, id0, payload, now)
                ELSE helpers.remote
        post == needs_post(put, r1)
        newid == rem1.allocated + 1
        r2 == shorepos_api_request(st2, IF post THEN ProductBody(newid, payload) ELSE NoBody)
        rem2 == IF post /\ ~r2.raised THEN RemoteStore(rem1, newid, payload, now) ELSE rem1
        response == IF post THEN r2 ELSE r1
        made == (IF put THEN <<Call("put", "products", id0, t, r1)>> ELSE <<>>)
                \o (IF post THEN <<Call("post", "products", 0, t, r2)>> ELSE <<>>)
        store == config.settings_shorepos_store_identifier
    IN  [put |-> put, post |-> post, calls |-> made, remote |-> rem2,
         helper_calls |-> helpers.calls, helper_ids |-> helpers.ids, used |-> helpers.used,
         refs |-> payload_refs(t, helpers.ids),
         ok |-> ~response.raised, returned |-> response.body.id,
         variations |-> response.body.variations,
         tmpl |-> [tmpl EXCEPT ![t] = push_write(@, response, store, now)],
         prod |-> IF response.raised THEN prod
                  ELSE variants_write(t, response.body, store, now)]

\* The answers the PUT of product t can get; a product without external id
\* makes no PUT.
PutStatuses(t) ==
    IF tmpl[t].shorepos_id # 0
    THEN {st \in Statuses : ServerCan(remote, "put", tmpl[t].shorepos_id, st)}
    ELSE {HTTP_OK}

\* One iteration of the loop of odoo_to_shorepos_products_sync (lines 693-868).
PushStep ==
    /\ job.stage = "push"
    /\ job.pc = "run"
    /\ IF job.todo = <<>>
       THEN /\ job' = [job EXCEPT !.pc = "done"]
            /\ UNCHANGED <<tmpl, prod, remote, calls, last>>
       ELSE LET t == Head(job.todo)
                seen == [op |-> "push", tmpl |-> t, shorepos_id |-> tmpl[t].shorepos_id, time |-> now]
            IN  /\ job' = [job EXCEPT !.todo = Tail(@), !.pc = NextPc(job.todo)]
                /\ IF code_too_long(tmpl[t])
                   THEN /\ last' = seen @@ [skipped |-> TRUE, ok |-> FALSE, calls |-> <<>>, returned |-> 0,
                                            variations |-> <<>>,
                                            helper_calls |-> <<>>, helper_ids |-> <<>>,
                                            refs |-> <<>>]
                        /\ UNCHANGED <<tmpl, prod, remote, calls>>
                   ELSE \E st1 \in PutStatuses(t), st2 \in Statuses,
                           sts \in [1..Len(HelperKinds(t)) -> HelperStatuses] :
                            \E r \in {push_product(t, sts, st1, st2)} :
                                /\ IF r.post THEN ServerCan(remote, "post", 0, st2)
                                   ELSE st2 = HTTP_OK
                                /\ r.used
                                /\ tmpl' = r.tmpl
                                /\ prod' = r.prod
                                /\ remote' = r.remote
                                /\ calls' = calls \o r.helper_calls \o r.calls
                                /\ last' = seen @@ [skipped |-> FALSE, ok |-> r.ok, calls |-> r.calls,
                                                    returned |-> r.returned,
                                                    variations |-> r.variations,
                                                    helper_calls |-> r.helper_calls,
                                                    helper_ids |-> r.helper_ids,
                                                    refs |-> r.refs]
    /\ UNCHANGED <<now, config, quant, logs, queue, trace, inv>>

----------------------------------------------------------------------------
(* The stock stage *)

\* A write that looks at the stock-move flag only.
quant_write_ignores_sync(rec, values, ctx, t) ==
    IF "quantity" \in DOMAIN values /\ ~ctx.from_stock_move
    THEN Merge(rec, values @@ [stock_quantity_last_update |-> t])
    ELSE Merge(rec, values)

\* StockQuant.write (shorepos_models.py): the manual-change timestamp is set
\* when the quantity is written outside a stock move and outside the sync.
quant_write(rec, values, ctx, t) ==
    IF "quantity" \in DOMAIN values /\ ~ctx.from_stock_move /\ ~ctx.from_external_sync
    THEN Merge(rec, values @@ [stock_quantity_last_update |-> t])
    ELSE Merge(rec, values)

NoContext == [from_stock_move |-> FALSE, from_external_sync |-> FALSE]

\* The context of a write made by a stock move.
FromStockMove == [from_stock_move |-> TRUE, from_external_sync |-> FALSE]

\* Line 547: with_context(from_external_sync=True).
FromExternalSync == [from_stock_move |-> FALSE, from_external_sync |-> TRUE]

NoQuant == [exists |-> FALSE, quantity |-> 0, stock_quantity_last_update |-> 0,
            shorepos_store_identifier |-> NoStore]

\* Lines 553-560: the stock.quant the sync creates.
quant_create(store, quantity) ==
    [exists |-> TRUE, quantity |-> quantity, stock_quantity_last_update |-> 0,
     shorepos_store_identifier |-> store]

\* Lines 606 and 640: the remote products by id, as the listing returns them.
StockMap(rem) == [exists |-> rem.exists, quantity |-> rem.quantity, time_modified |-> rem.time_modified]

MapHas(map, id) == id \in RemoteIds /\ map.exists[id]

\* Lines 609-629: the variants of the products linked to the store.
StockSelection ==
    {v \in Variants :
        LET t == product_tmpl_id(v)
        IN  /\ tmpl[t].shorepos_store_identifier = config.settings_shorepos_store_identifier
            /\ tmpl[t].sync_to_shorepos
            /\ tmpl[t].active
            /\ tmpl[t].shorepos_id # 0
            /\ prod[v].active
            /\ prod[v].is_storable}

\* Line 507: int(shorepos_id) or int(product_tmpl_id.shorepos_id)
product_shorepos_id(v) ==
    IF prod[v].shorepos_id # 0 THEN prod[v].shorepos_id ELSE tmpl[product_tmpl_id(v)].shorepos_id

\* Lines 519-526: the quant of the variant at the warehouse location, if any.
stock_quant_search(v) ==
    IF /\ tmpl[product_tmpl_id(v)].shorepos_store_identifier = config.settings_shorepos_store_identifier
       /\ quant[v].exists
    THEN quant[v] ELSE NoQuant

\* Lines 541-545: the remote is the source of truth when its timestamp is the
\* greatest of the three.
latest_timestamp(local_ts, remote_ts, woo_ts) == Max3(local_ts, remote_ts, woo_ts)

\* A comparison that forgets the legacy timestamp.
remote_is_latest_of_two(local_ts, remote_ts, woo_ts) ==
    Max2(local_ts, remote_ts) = remote_ts

\* A comparison that lets the local side win a tie.
remote_is_latest_strict(local_ts, remote_ts, woo_ts) ==
    remote_ts > local_ts /\ remote_ts >= woo_ts

remote_is_latest(local_ts, remote_ts, woo_ts) ==
    latest_timestamp(local_ts, remote_ts, woo_ts) = remote_ts

\* ProductProduct.shorepos_stock_last_sync_update: the watermark of the
\* variant and of its template, written without touching write_date.
stock_last_sync_prod(pr, v, ts) == [pr EXCEPT ![v].shorepos_stock_last_sync = ts]

\* An update that writes the watermark of the variant only.
stock_last_sync_tmpl_skipped(tm, v, ts) == tm

\* An update of the template through the ORM, which sets write_date.
stock_last_sync_tmpl_orm(tm, v, ts) ==
    [tm EXCEPT ![product_tmpl_id(v)] = tmpl_write(@, [shorepos_stock_last_sync |-> ts], now)]

\* Line 62: the watermark of the template of the variant.
stock_last_sync_tmpl(tm, v, ts) == [tm EXCEPT ![product_tmpl_id(v)].shorepos_stock_last_sync = ts]

\* A delta with the sign reversed.
adjust_delta_reversed(local_qty, remote_qty) == remote_qty - local_qty

\* Line 572: the quantity of the adjustment, local minus remote.
adjust_delta(local_qty, remote_qty) == local_qty - remote_qty

\* A time_modified that is not an ISO 8601 string.
Unparseable == -1

\* Line 537: datetime.fromisoformat raises ValueError for a string it cannot
\* parse; the isinstance test of line 538 is reached with a datetime only.
fromisoformat(s) == [raised |-> s = Unparseable, value |-> s]

\* ShoreposConnector.odoo_shorepos_products_stock_quantity_sync for variant v
\* against the listing `map`, the adjust_inventory call (if made) answered st.
stock_quantity_sync(v, map, st) ==
    LET id == product_shorepos_id(v)
        q == stock_quant_search(v)
        remote_qty == map.quantity[id]
        local_ts == q.stock_quantity_last_update
        remote_ts == map.time_modified[id]
        woo_ts == prod[v].woocommerce_last_sync
        seen == [op |-> "stock", variant |-> v, shorepos_id |-> id, time |-> now]
        same == [quant |-> quant, prod |-> prod, tmpl |-> tmpl, remote |-> remote,
                 calls |-> <<>>, updated |-> <<>>, raised |-> FALSE]
    IN  IF ~MapHas(map, id)
        THEN same @@ [last |-> seen @@ [kind |-> "absent"]]
        ELSE IF q.exists /\ remote_qty = qty_available(v)
        THEN same @@ [last |-> seen @@ [kind |-> "equal"]]
        ELSE IF fromisoformat(remote_ts).raised
        THEN [same EXCEPT !.raised = TRUE] @@ [last |-> seen @@ [kind |-> "raised"]]
        ELSE LET read == seen @@ [local_ts |-> local_ts, remote_ts |-> remote_ts, woo_ts |-> woo_ts,
                                  remote_qty |-> remote_qty, local_qty |-> qty_available(v),
                                  had_quant |-> q.exists]
             IN  IF remote_is_latest(local_ts, remote_ts, woo_ts)
                 THEN [quant |-> [quant EXCEPT ![v] =
                                    IF q.exists
                                    THEN quant_write(@, [quantity |-> remote_qty], FromExternalSync, now)
                                    ELSE quant_create(config.settings_shorepos_store_identifier, remote_qty)],
                       prod |-> stock_last_sync_prod(prod, v, remote_ts),
                       tmpl |-> stock_last_sync_tmpl(tmpl, v, remote_ts),
                       remote |-> remote, calls |-> <<>>, updated |-> <<>>, raised |-> FALSE,
                       last |-> read @@ [kind |-> "remote", status |-> 0]]
                 ELSE LET delta == adjust_delta(qty_available(v), remote_qty)
                          r == shorepos_api_request(st, NoBody)
                      IN  [quant |-> quant, prod |-> prod, tmpl |-> tmpl,
                           remote |-> IF r.raised THEN remote
                                      ELSE [remote EXCEPT !.quantity[id] = @ + delta,
                                                          !.time_modified[id] = now],
                           calls |-> <<Call("put", "adjust_inventory", id, product_tmpl_id(v), r)
                                       @@ [delta |-> delta]>>,
                           updated |-> IF r.raised THEN <<>> ELSE <<[variant |-> v, id |-> id]>>,
                           raised |-> r.raised,
                           last |-> read @@ [kind |-> "local", status |-> st]]

\* The first lines of odoo_shorepos_products_stock_quantity_sync_batch
\* (595-629): the listing is fetched, then the products are searched.  A
\* status that is not 200 (and not 429, which requestAll waits out) raises.
StockFetch ==
    /\ job.stage = "stock"
    /\ job.pc = "run"
    /\ \E st \in {HTTP_OK, HTTP_SERVER_ERROR} :
          LET r == shorepos_api_request(st, NoBody)
          IN  /\ calls' = Append(calls, Call("get", "products", 0, 0, r))
              /\ job' = IF r.raised THEN [job EXCEPT !.pc = "failed"]
                        ELSE [job EXCEPT !.pc = "loop", !.map = StockMap(remote),
                                         !.todo = SortedSeq(StockSelection)]
    /\ UNCHANGED <<now, config, tmpl, prod, quant, remote, logs, queue, trace, inv, last>>

\* Lines 633-634: one iteration of the loop; nothing catches what the
\* iteration raises, so the job fails with it.
StockStep ==
    /\ job.stage = "stock"
    /\ job.pc = "loop"
    /\ IF job.todo = <<>>
       THEN /\ job' = [job EXCEPT !.pc = IF job.updated # <<>> THEN "refetch" ELSE "done"]
            /\ UNCHANGED <<tmpl, prod, quant, remote, calls, last>>
       ELSE LET v == Head(job.todo)
            IN  \E st \in Statuses :
                    LET r == stock_quantity_sync(v, job.map, st)
                    IN  /\ IF r.calls # <<>>
                           THEN ServerCan(remote, "put", product_shorepos_id(v), st)
                           ELSE st = HTTP_OK
                        /\ quant' = r.quant
                        /\ prod' = r.prod
                        /\ tmpl' = r.tmpl
                        /\ remote' = r.remote
                        /\ calls' = calls \o r.calls
                        /\ last' = r.last
                        /\ job' = IF r.raised THEN [job EXCEPT !.pc = "failed"]
                                  ELSE [job EXCEPT !.todo = Tail(@), !.updated = @ \o r.updated]
    /\ UNCHANGED <<now, config, logs, queue, trace, inv>>

\* A second pass that marks every product that the second listing holds.
refetch_marks_every(upd, map) ==
    [v \in {w \in Variants : MapHas(map, product_shorepos_id(w))} |->
        map.time_modified[product_shorepos_id(v)]]

\* Lines 642-648: the new watermark of every updated product that the second
\* listing holds, by variant.
refetch_marks(upd, map) ==
    LET hit == {k \in 1..Len(upd) : MapHas(map, upd[k].id)}
    IN  [v \in {upd[k].variant : k \in hit} |->
            map.time_modified[upd[CHOOSE k \in hit : upd[k].variant = v].id]]

\* Lines 637-649: the second listing and the watermarks of the updated products.
StockRefetch ==
    /\ job.stage = "stock"
    /\ job.pc = "refetch"
    /\ \E st \in {HTTP_OK, HTTP_SERVER_ERROR} :
          LET r == shorepos_api_request(st, NoBody)
              marks == refetch_marks(job.updated, StockMap(remote))
          IN  /\ calls' = Append(calls, Call("get", "products", 0, 0, r))
              /\ IF r.raised
                 THEN /\ job' = [job EXCEPT !.pc = "failed"]
                      /\ UNCHANGED <<prod, tmpl>>
                 ELSE /\ job' = [job EXCEPT !.pc = "done"]
                      /\ prod' = [v \in Variants |->
                                    IF v \in DOMAIN marks
                                    THEN [prod[v] EXCEPT !.shorepos_stock_last_sync = marks[v]]
                                    ELSE prod[v]]
                      /\ tmpl' = [t \in Templates |->
                                    LET vs == {v \in DOMAIN marks : product_tmpl_id(v) = t}
                                    IN  IF vs = {} THEN tmpl[t]
                                        ELSE [tmpl[t] EXCEPT !.shorepos_stock_last_sync =
                                                marks[CHOOSE v \in vs : \A w \in vs : w <= v]]]
    /\ UNCHANGED <<now, config, quant, remote, logs, queue, trace, inv, last>>

----------------------------------------------------------------------------
(* The environment: the clock, the operator, the warehouse, the remote shop. *)
(* A job runs in one transaction: what the environment does is seen between *)
(* jobs.                                                                    *)

Tick ==
    /\ job.stage = "idle"
    /\ now < MaxTime
    /\ now' = now + 1
    /\ UNCHANGED <<config, tmpl, prod, quant, remote, logs, queue, job, calls, trace, inv, last>>

\* The operator switches "Sync to Shore POS" of a product.
UserToggleSync(t) ==
    /\ job.stage = "idle"
    /\ tmpl' = [tmpl EXCEPT ![t] = tmpl_write(@, [sync_to_shorepos |-> ~tmpl[t].sync_to_shorepos], now)]
    /\ UNCHANGED <<now, config, prod, quant, remote, logs, queue, job, calls, trace, inv, last>>

\* The operator edits a product.
UserEdit(t) ==
    /\ job.stage = "idle"
    /\ tmpl[t].write_date # now
    /\ tmpl' = [tmpl EXCEPT ![t] = tmpl_write(@, <<>>, now)]
    /\ UNCHANGED <<now, config, prod, quant, remote, logs, queue, job, calls, trace, inv, last>>

\* The operator sets the quantity of a quant by hand.
ManualStockChange(v, q) ==
    /\ job.stage = "idle"
    /\ quant[v].exists
    /\ quant[v].quantity # q
    /\ quant' = [quant EXCEPT ![v] = quant_write(@, [quantity |-> q], NoContext, now)]
    /\ last' = [op |-> "write", variant |-> v, ctx |-> NoContext, before |-> quant[v], time |-> now]
    /\ UNCHANGED <<now, config, tmpl, prod, remote, logs, queue, job, calls, trace, inv>>

\* A stock move changes the quantity of a quant.
StockMove(v, q) ==
    /\ job.stage = "idle"
    /\ quant[v].exists
    /\ quant[v].quantity # q
    /\ quant' = [quant EXCEPT ![v] = quant_write(@, [quantity |-> q], FromStockMove, now)]
    /\ last' = [op |-> "write", variant |-> v, ctx |-> FromStockMove, before |-> quant[v], time |-> now]
    /\ UNCHANGED <<now, config, tmpl, prod, remote, logs, queue, job, calls, trace, inv>>

\* The shop sells or restocks: the remote quantity and time_modified change.
RemoteChange(id, q) ==
    /\ job.stage = "idle"
    /\ remote.exists[id]
    /\ remote.quantity[id] # q
    /\ remote' = [remote EXCEPT !.quantity[id] = q, !.time_modified[id] = now]
    /\ UNCHANGED <<now, config, tmpl, prod, quant, logs, queue, job, calls, trace, inv, last>>

\* The product is deleted in the shop.
RemoteGone(id) ==
    /\ job.stage = "idle"
    /\ remote.exists[id]
    /\ remote' = [remote EXCEPT !.exists[id] = FALSE]
    /\ UNCHANGED <<now, config, tmpl, prod, quant, logs, queue, job, calls, trace, inv, last>>

----------------------------------------------------------------------------
(* Initial states *)

ConfigOf(expiry, products, stock, unset, refresh) ==
    [settings_shorepos_store_identifier |-> OwnStore,
     unset |-> unset,
     settings_shorepos_access_token |-> 1,
     settings_shorepos_refresh_token |-> refresh,
     settings_shorepos_token_expiry_date |-> expiry,
     settings_odoo_to_shorepos_products_sync |-> products,
     settings_shorepos_products_stock_management |-> stock,
     settings_shorepos_images_sync |-> FALSE]

NewTemplate(sync, len) ==
    [sync_to_shorepos |-> sync, active |-> TRUE, default_code_len |-> len,
     shorepos_id |-> 0, shorepos_store_identifier |-> NoStore,
     odoo_to_shorepos_last_sync |-> 0, write_date |-> 1, shorepos_stock_last_sync |-> 0,
     categ_id |-> 0, taxes_id |-> 0, image_1920 |-> 0]

NewVariant(code, storable) ==
    [active |-> TRUE, default_code |-> code, is_storable |-> storable,
     shorepos_id |-> 0, shorepos_store_identifier |-> NoStore,
     odoo_to_shorepos_last_sync |-> 0, shorepos_stock_last_sync |-> 0,
     woocommerce_last_sync |-> 0]

\* A product pushed earlier as remote product id, its watermark set by an
\* earlier stock stage.
LinkedTemplate(sync, id, watermark) ==
    [NewTemplate(sync, MaxCodeLen) EXCEPT
        !.shorepos_id = id, !.shorepos_store_identifier = OwnStore,
        !.odoo_to_shorepos_last_sync = 1, !.shorepos_stock_last_sync = watermark]

\* The remote holding the products ids, each with quantity q.
RemoteWith(ids, q) ==
    [exists |-> [id \in RemoteIds |-> id \in ids],
     quantity |-> [id \in RemoteIds |-> IF id \in ids THEN q ELSE 0],
     time_modified |-> [id \in RemoteIds |-> IF id \in ids THEN 1 ELSE 0],
     allocated |-> IF ids = {} THEN 0 ELSE CHOOSE m \in ids : \A x \in ids : x <= m,
     category |-> 0, tax |-> 0]

EmptyRemote ==
    [exists |-> [id \in RemoteIds |-> FALSE],
     quantity |-> [id \in RemoteIds |-> 0],
     time_modified |-> [id \in RemoteIds |-> 0],
     allocated |-> 0, category |-> 0, tax |-> 0]

NoInvocation ==
    [count |-> 0, expired |-> FALSE, token_gets |-> 0, token_posts |-> 0, ret |-> "None", enqueued |-> <<>>]

InitIdle ==
    /\ logs = [m \in LogModels |-> <<>>]
    /\ queue = <<>>
    /\ job = Idle
    /\ calls = <<>>
    /\ trace = [r \in Runs |-> <<>>]
    /\ inv = NoInvocation
    /\ last = NoStep

\* A token that stays valid for the whole behaviour.
ValidForever == MaxTime + 1

----------------------------------------------------------------------------
(* The catalogue stages: delete and push, with the operator and the shop *)

\* The first variant of a template carries the SKU "sku-a"; the further
\* variants of a variable product carry any SKU or none.
InitCatalog ==
    /\ InitIdle
    /\ now = 1
    /\ config = ConfigOf(ValidForever, TRUE, FALSE, {}, 1)
    /\ tmpl \in [Templates -> {NewTemplate(TRUE, len) : len \in {MaxCodeLen, MaxCodeLen + 1}}
                                \cup {LinkedTemplate(TRUE, 1, 1)}]
    /\ tmpl[2] = NewTemplate(TRUE, MaxCodeLen)
    /\ prod \in [Variants -> {NewVariant(c, FALSE) : c \in Skus \cup {NoCode}}]
    /\ \A v \in Variants : (\A w \in product_variant_ids(product_tmpl_id(v)) : v <= w)
                              => prod[v].default_code = "sku-a"
    /\ quant = [v \in Variants |-> NoQuant]
    /\ remote = RemoteWith({t \in Templates : tmpl[t].shorepos_id # 0}, 0)

NextCatalog ==
    \/ RunStage("delete")
    \/ RunStage("push")
    \/ DeleteStep
    \/ PushStep
    \/ FinishJob
    \/ Tick
    \/ \E t \in Templates : UserToggleSync(t)
    \/ \E t \in Templates : UserEdit(t)
    \/ \E id \in RemoteIds : RemoteGone(id)

SpecCatalog == InitCatalog /\ [][NextCatalog]_vars

----------------------------------------------------------------------------
(* The stock stage, with the warehouse, the legacy integration and the shop *)

\* The legacy integration synchronises a variant: woocommerce_last_sync.
LegacySync(v) ==
    /\ job.stage = "idle"
    /\ prod[v].woocommerce_last_sync # now
    /\ prod' = [prod EXCEPT ![v].woocommerce_last_sync = now]
    /\ UNCHANGED <<now, config, tmpl, quant, remote, logs, queue, job, calls, trace, inv, last>>

Quantities == 0..MaxQty

\* Product 1 in every state of its stock data that the stage can meet: a
\* quant or none, any quantity and manual-change timestamp, any legacy
\* timestamp, a remote entry or none with any quantity and time_modified.
\* Product 2 has one unit on hand or no quant, and a remote entry holding
\* none.  Variant 3 is archived.  The clock stands at MaxTime.
InitStock ==
    /\ InitIdle
    /\ now = MaxTime
    /\ config = ConfigOf(ValidForever, FALSE, TRUE, {}, 1)
    /\ tmpl = [t \in Templates |-> LinkedTemplate(TRUE, t, 0)]
    /\ \E w \in Times :
          prod = [v \in Variants |->
                    [NewVariant("sku-a", TRUE) EXCEPT !.active = (v # 3),
                                                      !.woocommerce_last_sync = IF v = 1 THEN w ELSE 0]]
    /\ \E q1 \in {NoQuant} \cup {[quant_create(OwnStore, q) EXCEPT !.stock_quantity_last_update = ts] :
                                    q \in Quantities, ts \in Times},
          q2 \in {NoQuant, quant_create(OwnStore, 1)} :
          quant = [v \in Variants |-> IF v = 1 THEN q1 ELSE IF v = 2 THEN q2 ELSE NoQuant]
    /\ \E e \in BOOLEAN, q \in Quantities, ts \in 1..MaxTime :
          remote = [RemoteWith(Templates, 0) EXCEPT !.exists[1] = e, !.quantity[1] = q,
                                                    !.time_modified[1] = ts]

NextStock ==
    \/ RunStage("stock")
    \/ StockFetch
    \/ StockStep
    \/ StockRefetch
    \/ FinishJob
    \/ FailJob
    \/ \E q \in Quantities : ManualStockChange(1, q)
    \/ \E q \in Quantities : StockMove(1, q)
    \/ LegacySync(1)
    \/ \E q \in Quantities : RemoteChange(1, q)

SpecStock == InitStock /\ [][NextStock]_vars

----------------------------------------------------------------------------
(* The sync run: the token gate, the chain and every stage *)

\* The settings of the connection: complete, one of them unset, or the
\* refresh token unset.
Credentials == {<<{}, 1>>, <<{"client_id"}, 1>>, <<{}, 0>>}

\* Product 1 is linked and was edited after its push; it has one unit on
\* hand, counted now, and none in the shop.  Product 2 is linked and has its
\* sync switched off.  The clock stands at MaxTime; the token expiry is
\* unset, is now, or lies ahead.
InitRun ==
    /\ InitIdle
    /\ now = MaxTime
    /\ \E e \in {0, MaxTime, ValidForever}, p \in BOOLEAN, s \in BOOLEAN, c \in Credentials :
          config = ConfigOf(e, p, s, c[1], c[2])
    /\ tmpl = [t \in Templates |-> [LinkedTemplate(t = 1, t, 0) EXCEPT !.write_date = MaxTime]]
    /\ prod = [v \in Variants |-> [NewVariant("sku-a", TRUE) EXCEPT !.active = (v # 3)]]
    /\ quant = [v \in Variants |->
                  IF v = 1 THEN [quant_create(OwnStore, 1) EXCEPT !.stock_quantity_last_update = MaxTime]
                  ELSE NoQuant]
    /\ remote = RemoteWith(Templates, 0)

NextRun ==
    \/ shorepos_sync
    \/ \E i \in 1..Len(queue) : StartJob(i)
    \/ DeleteStep
    \/ PushStep
    \/ StockFetch
    \/ StockStep
    \/ StockRefetch
    \/ LogStage
    \/ FinishJob
    \/ FailJob

SpecRun == InitRun /\ [][NextRun]_vars

----------------------------------------------------------------------------
(* The push stage with the helpers of the payload *)

\* Template t with a category, taxes and an image, or without.
WithPayload(rec, categ, tax, image) ==
    [rec EXCEPT !.categ_id = categ, !.taxes_id = tax, !.image_1920 = image]

\* The category, taxes and image a product can have: none or all.
Payloads == {<<0, 0, 0>>, <<1, 1, 1>>}

\* Product 1 is simple, with or without category, tax and image; it is new
\* with a default_code of 30 or 31 characters, or linked and edited since
\* its last push.  Product 2 has two variants and is new, with or without
\* tax.  The remote knows the category and the tax, or neither.  The image
\* sync is on or off.  The clock stands at MaxTime.
InitPush ==
    /\ InitIdle
    /\ now = MaxTime
    /\ \E images \in BOOLEAN :
          config = [ConfigOf(ValidForever, TRUE, FALSE, {}, 1) EXCEPT !.settings_shorepos_images_sync = images]
    /\ \E p \in Payloads, tax2 \in {0, 1},
          first \in {NewTemplate(TRUE, MaxCodeLen), NewTemplate(TRUE, MaxCodeLen + 1),
                     [LinkedTemplate(TRUE, 1, 0) EXCEPT !.write_date = MaxTime]} :
          tmpl = [t \in Templates |->
                    IF t = 1 THEN WithPayload(first, p[1], p[2], p[3])
                    ELSE WithPayload(NewTemplate(TRUE, MaxCodeLen), 0, tax2, 0)]
    /\ prod = [v \in Variants |-> NewVariant(IF v = 3 THEN "sku-b" ELSE "sku-a", FALSE)]
    /\ quant = [v \in Variants |-> NoQuant]
    /\ \E known \in {0, 1} :
          remote = [RemoteWith({t \in Templates : tmpl[t].shorepos_id # 0}, 0)
                        EXCEPT !.category = known, !.tax = known]

NextPush ==
    \/ RunStage("push")
    \/ PushStep
    \/ FinishJob

SpecPush == InitPush /\ [][NextPush]_vars

----------------------------------------------------------------------------
(* The delete stage executed twice *)

\* The delete job that is done is delivered once more, at once.  The frame
\* of the second execution keeps the records and the calls the first
\* execution ended with, and its own selection.
Reexecute ==
    /\ job.stage = "delete"
    /\ job.pc = "done"
    /\ "first" \notin DOMAIN job
    /\ job' = [Idle EXCEPT !.stage = "delete", !.pc = "run", !.todo = StageSelection("delete")]
              @@ [first |-> [tmpl |-> tmpl, prod |-> prod, calls |-> calls],
                  selected |-> DeleteSelection]
    /\ calls' = <<>>
    /\ last' = NoStep
    /\ UNCHANGED <<now, config, tmpl, prod, quant, remote, logs, queue, trace, inv>>

\* Each product was pushed earlier as the remote product of its own number
\* and is unchecked or not; the remote still holds it, or not.
InitDelete ==
    /\ InitIdle
    /\ now = MaxTime
    /\ config = ConfigOf(ValidForever, TRUE, FALSE, {}, 1)
    /\ \E unchecked \in SUBSET Templates :
          tmpl = [t \in Templates |-> LinkedTemplate(t \notin unchecked, t, 1)]
    /\ prod = [v \in Variants |-> NewVariant("sku-a", FALSE)]
    /\ quant = [v \in Variants |-> NoQuant]
    /\ \E held \in SUBSET Templates : remote = RemoteWith(held, 0)

NextDelete ==
    \/ RunStage("delete")
    \/ DeleteStep
    \/ Reexecute
    \/ FinishJob
    \/ \E t \in Templates : UserToggleSync(t)

SpecDelete == InitDelete /\ [][NextDelete]_vars

----------------------------------------------------------------------------
(* The stock stage and a remote product without a readable time_modified *)

\* As InitStock, with a remote product 1 whose time_modified is a timestamp
\* or cannot be parsed.
InitUnparseable ==
    /\ InitIdle
    /\ now = MaxTime
    /\ config = ConfigOf(ValidForever, FALSE, TRUE, {}, 1)
    /\ tmpl = [t \in Templates |-> LinkedTemplate(TRUE, t, 0)]
    /\ \E w \in Times :
          prod = [v \in Variants |->
                    [NewVariant("sku-a", TRUE) EXCEPT !.active = (v # 3),
                                                      !.woocommerce_last_sync = IF v = 1 THEN w ELSE 0]]
    /\ \E q1 \in {NoQuant} \cup {[quant_create(OwnStore, q) EXCEPT !.stock_quantity_last_update = ts] :
                                    q \in Quantities, ts \in Times},
          q2 \in {NoQuant, quant_create(OwnStore, 1)} :
          quant = [v \in Variants |-> IF v = 1 THEN q1 ELSE IF v = 2 THEN q2 ELSE NoQuant]
    /\ \E q \in Quantities, ts \in {Unparseable, 1} :
          remote = [RemoteWith(Templates, 0) EXCEPT !.quantity[1] = q, !.time_modified[1] = ts]

NextUnparseable ==
    \/ RunStage("stock")
    \/ StockFetch
    \/ StockStep
    \/ StockRefetch
    \/ FinishJob
    \/ FailJob

SpecUnparseable == InitUnparseable /\ [][NextUnparseable]_vars

----------------------------------------------------------------------------
(* The push stage with the multi-category field categ_ids *)

\* The templates carry the field categ_ids.  Product 1 is new and has one
\* category in categ_ids; product 2 is new and has none there, and a
\* categ_id or not.  The remote knows the category, or not.
InitCategories ==
    /\ InitIdle
    /\ now = MaxTime
    /\ config = ConfigOf(ValidForever, TRUE, FALSE, {}, 1)
    /\ \E c2 \in {0, 1} :
          tmpl = [t \in Templates |->
                    IF t = 1 THEN NewTemplate(TRUE, MaxCodeLen) @@ [categ_ids |-> 1]
                    ELSE WithPayload(NewTemplate(TRUE, MaxCodeLen), c2, 0, 0) @@ [categ_ids |-> 0]]
    /\ prod = [v \in Variants |-> NewVariant(IF v = 3 THEN "sku-b" ELSE "sku-a", FALSE)]
    /\ quant = [v \in Variants |-> NoQuant]
    /\ \E known \in {0, 1} :
          remote = [EmptyRemote EXCEPT !.category = known]

NextCategories ==
    \/ RunStage("push")
    \/ PushStep
    \/ FinishJob

SpecCategories == InitCategories /\ [][NextCategories]_vars

----------------------------------------------------------------------------
(* The push stage and the products of another store *)

\* A product pushed earlier under the given store identifier.
LinkedUnder(store, id) ==
    [LinkedTemplate(TRUE, id, 0) EXCEPT !.shorepos_store_identifier = store]

\* Each product is new, or was pushed earlier as the remote product of its
\* own number, under the store of the configuration or under another one.
\* The remote of the configuration holds the products pushed under its
\* store, and those of the other store or not.
InitForeign ==
    /\ InitIdle
    /\ now = 1
    /\ config = ConfigOf(ValidForever, TRUE, FALSE, {}, 1)
    /\ \E kind \in [Templates -> {NoStore, OwnStore, ForeignStore}] :
          tmpl = [t \in Templates |->
                    IF kind[t] = NoStore THEN NewTemplate(TRUE, MaxCodeLen)
                    ELSE LinkedUnder(kind[t], t)]
    /\ prod = [v \in Variants |-> NewVariant(IF v = 3 THEN "sku-b" ELSE "sku-a", FALSE)]
    /\ quant = [v \in Variants |-> NoQuant]
    /\ \E held \in BOOLEAN :
          remote = RemoteWith({t \in Templates :
                                  /\ tmpl[t].shorepos_id # 0
                                  /\ tmpl[t].shorepos_store_identifier = OwnStore \/ held}, 0)

NextForeign ==
    \/ RunStage("push")
    \/ PushStep
    \/ FinishJob
    \/ Tick
    \/ \E t \in Templates : UserEdit(t)

SpecForeign == InitForeign /\ [][NextForeign]_vars

----------------------------------------------------------------------------
(* The push stage executed twice, over a network that can lose an answer *)

\* Line 312: requests.request gives up after `timeout` seconds and raises,
\* whether or not the remote carried the request out.  The POST of a product
\* whose answer is lost after the remote stored the product as `id`.
LostPost(t, id) ==
    Call("post", "products", 0, t, [raised |-> TRUE, status |-> 0]) @@ [stored |-> id]

\* One iteration of the loop of odoo_to_shorepos_products_sync in which the
\* POST (line 839 or 845) is stored by the remote and raises a Timeout: the
\* handler of line 867 logs it, and nothing is written to the product.
PushStepLost ==
    /\ job.stage = "push"
    /\ job.pc = "run"
    /\ job.todo # <<>>
    /\ LET t == Head(job.todo)
           seen == [op |-> "push", tmpl |-> t, shorepos_id |-> tmpl[t].shorepos_id, time |-> now]
       IN  /\ ~code_too_long(tmpl[t])
           /\ \E st1 \in PutStatuses(t), sts \in [1..Len(HelperKinds(t)) -> HelperStatuses] :
                 \E r \in {push_product(t, sts, st1, HTTP_OK)} :
                     /\ r.post
                     /\ ServerCan(remote, "post", 0, HTTP_OK)
                     /\ r.used
                     /\ remote' = r.remote
                     /\ calls' = calls \o r.helper_calls \o SubSeq(r.calls, 1, Len(r.calls) - 1)
                                       \o <<LostPost(t, r.returned)>>
                     /\ last' = seen @@ [skipped |-> FALSE, ok |-> FALSE,
                                         calls |-> SubSeq(r.calls, 1, Len(r.calls) - 1)
                                                   \o <<LostPost(t, r.returned)>>,
                                         returned |-> 0, variations |-> <<>>,
                                         helper_calls |-> r.helper_calls,
                                         helper_ids |-> r.helper_ids,
                                         refs |-> r.refs]
           /\ job' = [job EXCEPT !.todo = Tail(@), !.pc = NextPc(job.todo)]
    /\ UNCHANGED <<now, config, tmpl, prod, quant, logs, queue, trace, inv>>

\* The push job that is done is delivered once more, at once.  The frame of
\* the second execution keeps the products and the calls the first execution
\* ended with.
ReexecutePush ==
    /\ job.stage = "push"
    /\ job.pc = "done"
    /\ "first" \notin DOMAIN job
    /\ job' = [Idle EXCEPT !.stage = "push", !.pc = "run", !.todo = StageSelection("push")]
              @@ [first |-> [tmpl |-> tmpl, calls |-> calls]]
    /\ calls' = <<>>
    /\ last' = NoStep
    /\ UNCHANGED <<now, config, tmpl, prod, quant, remote, logs, queue, trace, inv>>

\* Product 1 is new, or linked and edited since its last push; product 2 is
\* new and has two variants.  No product has a category, a tax or an image.
InitRepush ==
    /\ InitIdle
    /\ now = MaxTime
    /\ config = ConfigOf(ValidForever, TRUE, FALSE, {}, 1)
    /\ \E first \in {NewTemplate(TRUE, MaxCodeLen),
                     [LinkedTemplate(TRUE, 1, 0) EXCEPT !.write_date = MaxTime]} :
          tmpl = [t \in Templates |-> IF t = 1 THEN first ELSE NewTemplate(TRUE, MaxCodeLen)]
    /\ prod = [v \in Variants |-> NewVariant(IF v = 3 THEN "sku-b" ELSE "sku-a", FALSE)]
    /\ quant = [v \in Variants |-> NoQuant]
    /\ \E held \in BOOLEAN :
          remote = RemoteWith({t \in Templates : tmpl[t].shorepos_id # 0 /\ held}, 0)

NextRepush ==
    \/ RunStage("push")
    \/ PushStep
    \/ PushStepLost
    \/ ReexecutePush
    \/ FinishJob

SpecRepush == InitRepush /\ [][NextRepush]_vars

----------------------------------------------------------------------------
(* The stock stage executed twice *)

\* The stock job that is done is delivered once more, at once.  The frame
\* of the second execution keeps the quants and the remote quantities the
\* first execution ended with.
ReexecuteStock ==
    /\ job.stage = "stock"
    /\ job.pc = "done"
    /\ "first" \notin DOMAIN job
    /\ job' = [Idle EXCEPT !.stage = "stock", !.pc = "run", !.todo = StageSelection("stock")]
              @@ [first |-> [quant |-> quant, remote |-> remote, calls |-> calls]]
    /\ calls' = <<>>
    /\ last' = NoStep
    /\ UNCHANGED <<now, config, tmpl, prod, quant, remote, logs, queue, trace, inv>>

\* Product 1 as in InitStock.  Product 2 has two storable variants, 2 and
\* 3, that carry no remote id of their own (line 507 falls back to the id of
\* the template): variant 2 has one unit on hand, counted before or after
\* the remote entry was modified, or no quant; variant 3 has none on hand.
InitRestock ==
    /\ InitIdle
    /\ now = MaxTime
    /\ config = ConfigOf(ValidForever, FALSE, TRUE, {}, 1)
    /\ tmpl = [t \in Templates |-> LinkedTemplate(TRUE, t, 0)]
    /\ \E w \in Times :
          prod = [v \in Variants |->
                    [NewVariant("sku-a", TRUE) EXCEPT
                        !.woocommerce_last_sync = IF v = 1 THEN w ELSE 0]]
    /\ \E q1 \in {NoQuant} \cup {[quant_create(OwnStore, q) EXCEPT !.stock_quantity_last_update = ts] :
                                    q \in Quantities, ts \in Times},
          q2 \in {NoQuant} \cup {[quant_create(OwnStore, 1) EXCEPT !.stock_quantity_last_update = ts] :
                                    ts \in {0, MaxTime}},
          q3 \in {NoQuant, quant_create(OwnStore, 0)} :
          quant = [v \in Variants |-> IF v = 1 THEN q1 ELSE IF v = 2 THEN q2 ELSE q3]
    /\ \E e \in BOOLEAN, q \in Quantities, ts \in 1..MaxTime :
          remote = [RemoteWith(Templates, 0) EXCEPT !.exists[1] = e, !.quantity[1] = q,
                                                    !.time_modified[1] = ts]

NextRestock ==
    \/ RunStage("stock")
    \/ StockFetch
    \/ StockStep
    \/ StockRefetch
    \/ ReexecuteStock
    \/ FinishJob
    \/ FailJob

SpecRestock == InitRestock /\ [][NextRestock]_vars

----------------------------------------------------------------------------
(* shorepos_token_get called on its own *)

\* A token the configuration holds from an earlier refresh; the endpoint
\* does not hand it out again.
OldToken == MaxToken + 1

\* shorepos_token_get is called (lines 200 and 111); `last` keeps the
\* configuration before the call, the answer of the endpoint, the returned
\* value and the number of requests made.
TokenGet ==
    /\ job.stage = "idle"
    /\ \E resp \in TokenResponses :
          \E r \in {shorepos_token_get(config, resp, now)} :
              /\ config' = r.config
              /\ last' = [op |-> "token", before |-> config, resp |-> resp, ret |-> r.ret,
                          posts |-> r.posts, time |-> now]
    /\ UNCHANGED <<now, tmpl, prod, quant, remote, logs, queue, job, calls, trace, inv>>

\* The configuration lacks none or one of the required settings, holds an
\* older refresh token, the one the endpoint returns, or none, and an older
\* access token or none; the expiry is unset, is now, or lies ahead.
InitToken ==
    /\ InitIdle
    /\ now = 1
    /\ \E e \in {0, 1, ValidForever}, missing \in {{}} \cup {{k} : k \in RequiredSettings},
          refresh \in {0, 1, OldToken}, access \in {0, OldToken} :
          config = [ConfigOf(e, TRUE, TRUE, missing, refresh) EXCEPT !.settings_shorepos_access_token = access]
    /\ tmpl = [t \in Templates |-> NewTemplate(FALSE, MaxCodeLen)]
    /\ prod = [v \in Variants |-> NewVariant("sku-a", FALSE)]
    /\ quant = [v \in Variants |-> NoQuant]
    /\ remote = EmptyRemote

NextToken ==
    \/ TokenGet
    \/ Tick

SpecToken == InitToken /\ [][NextToken]_vars

----------------------------------------------------------------------------
(* The sync run while the clock advances *)

\* As InitRun, but the clock stands at 1, the token expires at MaxTime or
\* stays valid, and the unit of variant 1 was counted after the remote
\* products were last modified.
InitExpiry ==
    /\ InitIdle
    /\ now = 1
    /\ \E e \in {MaxTime, ValidForever}, p \in BOOLEAN, s \in BOOLEAN :
          config = ConfigOf(e, p, s, {}, 1)
    /\ tmpl = [t \in Templates |-> LinkedTemplate(t = 1, t, 0)]
    /\ prod = [v \in Variants |-> [NewVariant("sku-a", TRUE) EXCEPT !.active = (v # 3)]]
    /\ quant = [v \in Variants |->
                  IF v = 1 THEN [quant_create(OwnStore, 1) EXCEPT !.stock_quantity_last_update = 1]
                  ELSE NoQuant]
    /\ remote = [RemoteWith(Templates, 0) EXCEPT !.time_modified = [id \in RemoteIds |-> 0]]

\* The jobs of a chain run some time after shorepos_sync submitted them.
NextExpiry ==
    \/ NextRun
    \/ Tick

SpecExpiry == InitExpiry /\ [][NextExpiry]_vars

----------------------------------------------------------------------------
(* shorepos_api_request_all: the pages of a listing *)

MaxLimit == 2          \* the page limits a caller overrides with: 1..MaxLimit
MaxPages == 2          \* full pages the remote serves before a short one
MaxRetries == 1        \* answers of one listing that do not advance the page
MaxRetryAfter == 2     \* Retry-After values 1..MaxRetryAfter

\* params.setdefault('limit', 100)
DefaultLimit == 100

\* The params a caller passes: none, or a limit of its own.
NoParams == [k \in {} |-> 0]

CallerParams == {NoParams} \cup {("limit" :> l) : l \in 1..MaxLimit}

\* dict.setdefault
setdefault(params, key, value) ==
    IF key \in DOMAIN params THEN params ELSE params @@ (key :> value)

\* The Retry-After header of a 429: absent, or a number of seconds.
RetryAfterHeaders == {<<>>} \cup {<<s>> : s \in 1..MaxRetryAfter}

\* int(error.response.headers.get('Retry-After', 1))
retry_after(header) == IF header = <<>> THEN 1 ELSE header[1]

\* The bodies of a 200 answer: nothing (None, [] or {}), a bare list, a
\* mapping with a `results` list, a mapping with a `data` value, and a
\* mapping with neither.
Shapes == {"empty", "list", "results", "data", "other"}

\* The sizes of the pages the remote serves under limit l.
PageSizes(l) == {n \in {0, 1, 29, 40, l - 1, l} : 0 <= n /\ n <= l}

\* The n items after the `served` ones.
Items(served, n) == [i \in 1..n |-> served + i]

\* The body of the answer to a request for a page: its shape and its items.
\* A full page is served up to page MaxPages only.
Bodies(page, l, served) ==
    {[shape |-> "empty", items |-> <<>>], [shape |-> "other", items |-> <<>>]}
    \cup {[shape |-> sh, items |-> Items(served, n)] :
            sh \in {"results", "data"}, n \in {m \in PageSizes(l) : m = l => page <= MaxPages}}
    \cup {[shape |-> "list", items |-> Items(served, n)] : n \in PageSizes(l) \ {0}}

\* A page loop that also stops on a full page.
request_all_step_stop_on_full(response, limit) ==
    CASE response.shape = "empty" -> [items |-> <<>>, then |-> "break"]
      [] response.shape = "list" -> [items |-> response.items, then |-> "break"]
      [] response.shape \in {"results", "data"} ->
            [items |-> response.items,
             then |-> IF Len(response.items) <= limit THEN "break" ELSE "next"]
      [] OTHER -> [items |-> <<>>, then |-> "again"]

\* Lines 343-367: what one answer adds to items_all, and how the loop goes
\* on: it ends ("break"), asks for the next page ("next"), or comes round to
\* `while True` with the page it had ("again").
request_all_step(response, limit) ==
    CASE response.shape = "empty" -> [items |-> <<>>, then |-> "break"]
      [] response.shape = "list" -> [items |-> response.items, then |-> "break"]
      [] response.shape \in {"results", "data"} ->
            [items |-> response.items,
             then |-> IF Len(response.items) < limit THEN "break" ELSE "next"]
      [] OTHER -> [items |-> <<>>, then |-> "again"]

\* A handler that gives up on 429 like on every other error.
request_all_error_raise(status) == "raise"

\* Lines 369-376: a 429 is waited out, every other HTTPError is raised.
request_all_error(status) == IF status = HTTP_TOO_MANY THEN "retry" ELSE "raise"

\* Lines 329-335: the frame of a call of shorepos_api_request_all.
RequestAllFrame(params) ==
    [stage |-> "request_all", run |-> 0, pc |-> "request", todo |-> <<>>, map |-> <<>>,
     updated |-> <<>>, given |-> params, params |-> setdefault(params, "limit", DefaultLimit),
     page |-> 1, items_all |-> <<>>, slept |-> <<>>]

\* A caller lists an endpoint.
RequestAllCall ==
    /\ job.stage = "idle"
    /\ \E params \in CallerParams :
          job' = RequestAllFrame(params)
    /\ calls' = <<>>
    /\ last' = [op |-> "request_all", served |-> 0, stalls |-> 0]
    /\ UNCHANGED <<now, config, tmpl, prod, quant, remote, logs, queue, trace, inv>>

\* Lines 337-376: one round of the loop: the request for the page, and what
\* the loop does with the answer.  The 50 ms between two pages and the
\* Retry-After seconds are recorded in `slept`.
RequestPage ==
    /\ job.stage = "request_all"
    /\ job.pc = "request"
    /\ \E st \in {HTTP_OK, HTTP_TOO_MANY, HTTP_SERVER_ERROR},
          body \in Bodies(job.page, job.params["limit"], last.served),
          header \in RetryAfterHeaders :
          LET r == shorepos_api_request(st, body)
              sent == Call("get", "products", 0, 0, r)
                      @@ [params |-> job.params @@ ("page" :> job.page),
                          retry_after |-> header,
                          shape |-> IF r.raised THEN "none" ELSE body.shape,
                          items |-> IF r.raised THEN <<>> ELSE body.items]
              step == request_all_step(body, job.params["limit"])
              stall == r.status = HTTP_TOO_MANY \/ (~r.raised /\ step.then = "again")
          IN  /\ r.raised => body.shape = "empty"
              /\ st # HTTP_TOO_MANY => header = <<>>
              /\ stall => last.stalls < MaxRetries
              /\ calls' = Append(calls, sent)
              /\ last' = [last EXCEPT !.served = IF r.raised THEN @ ELSE @ + Len(body.items),
                                      !.stalls = IF stall THEN @ + 1 ELSE @]
              /\ job' = IF r.raised
                        THEN IF request_all_error(st) = "retry"
                             THEN [job EXCEPT !.slept = Append(@, retry_after(header))]
                             ELSE [job EXCEPT !.pc = "raised"]
                        ELSE CASE step.then = "break" ->
                                    [job EXCEPT !.items_all = @ \o step.items, !.pc = "returned"]
                               [] step.then = "next" ->
                                    [job EXCEPT !.items_all = @ \o step.items, !.page = @ + 1,
                                                !.slept = Append(@, 0)]
                               [] OTHER -> job
    /\ UNCHANGED <<now, config, tmpl, prod, quant, remote, logs, queue, trace, inv>>

\* Line 378 (or the raise of line 376): the call is over.
RequestAllReturn ==
    /\ job.stage = "request_all"
    /\ job.pc \in {"returned", "raised"}
    /\ job' = Idle
    /\ calls' = <<>>
    /\ last' = NoStep
    /\ UNCHANGED <<now, config, tmpl, prod, quant, remote, logs, queue, trace, inv>>

InitPages ==
    /\ InitIdle
    /\ now = 1
    /\ config = ConfigOf(ValidForever, FALSE, TRUE, {}, 1)
    /\ tmpl = [t \in Templates |-> NewTemplate(FALSE, MaxCodeLen)]
    /\ prod = [v \in Variants |-> NewVariant("sku-a", TRUE)]
    /\ quant = [v \in Variants |-> NoQuant]
    /\ remote = EmptyRemote

NextPages ==
    \/ RequestAllCall
    \/ RequestPage
    \/ RequestAllReturn

SpecPages == InitPages /\ [][NextPages]_vars

----------------------------------------------------------------------------
(* Properties of the sync run (SpecRun) *)

IsPrefix(a, b) == Len(a) <= Len(b) /\ \A i \in 1..Len(a) : a[i] = b[i]

\* The stages a run must go through, from the two toggles.
ExpectedStages ==
    SelectSeq(<<"delete", "push", "stock", "stock_log", "log">>,
              LAMBDA st :
                /\ st \in {"delete", "push"} => config.settings_odoo_to_shorepos_products_sync
                /\ st \in {"stock", "stock_log"} => config.settings_shorepos_products_stock_management)

\* Each stage starts, then is done, before the next one starts.
ExpectedEvents ==
    [k \in 1..(2 * Len(ExpectedStages)) |->
        <<ExpectedStages[(k + 1) \div 2], IF k % 2 = 1 THEN "start" ELSE "done">>]

RunInOrder(r) ==
    \/ trace[r] = <<>>
    \/ LET evs == Tail(trace[r])
           n == Len(evs)
       IN  /\ trace[r][1] = <<"sync", "submitted">>
           /\ \/ IsPrefix(evs, ExpectedEvents)
              \/ /\ n > 0 /\ n % 2 = 0 /\ n <= Len(ExpectedEvents)
                 /\ IsPrefix(SubSeq(evs, 1, n - 1), ExpectedEvents)
                 /\ evs[n] = <<ExpectedEvents[n][1], "failed">>

\* C1: in every run the stages start in the order delete, push, stock,
\* stock-log, general-log, each only after its predecessor is done; the
\* delete and push stages are absent when product sync is off, the stock and
\* stock-log stages when stock management is off.
C1_StagesInOrder == \A r \in Runs : RunInOrder(r)

C1_Witness ==
    \E r \in Runs :
        /\ Len(trace[r]) = 11
        /\ trace[r][11] = <<"log", "done">>
        /\ trace[r][2] = <<"delete", "start">>

\* C2: an invocation of shorepos_sync that finds the token expiry unset or
\* not later than now makes exactly one token refresh (at most one token
\* request) and neither enqueues nor runs any stage.
C2_ExpiredOnlyRefreshes ==
    [][(/\ inv'.count # inv.count
        /\ \/ config.settings_shorepos_token_expiry_date = 0
           \/ config.settings_shorepos_token_expiry_date <= now)
       => /\ inv'.token_gets = 1
          /\ inv'.token_posts <= 1
          /\ queue' = queue /\ job' = job /\ trace' = trace
          /\ logs' = logs /\ calls' = calls /\ remote' = remote]_vars

C2_Witness ==
    /\ inv.count > 0
    /\ inv.expired
    /\ inv.token_posts = 1
    /\ inv.ret = "None"
    /\ queue = <<>>


\* C23: no authenticated call of a stage is made while the token expiry is
\* unset or not later than now: an expired token is refreshed before the
\* call, also when it expires between the start of a run and a later stage.
C23_NoCallWithExpiredToken ==
    (job.stage \in Stages /\ calls # <<>>) => ~TokenExpired(config, now)

\* C24: after an invocation of shorepos_sync that found the token expired or
\* unset and refreshed it, the token expiry is later than now, so that the
\* next invocation performs the sync.
C24_RefreshLeavesValidToken ==
    (inv.count > 0 /\ inv.expired /\ inv.ret = "None") => ~TokenExpired(config, now)

----------------------------------------------------------------------------
(* Properties of the stock stage (SpecStock) *)

\* The last iteration compared the timestamps: the product is in the
\* listing, and it has no quant or its quantities differ.
StockDecided == last.op = "stock" /\ last.kind \in {"remote", "local"}

\* The inventory adjustments pushed for the product of the last iteration.
AdjustCalls ==
    {k \in 1..Len(calls) :
        /\ calls[k].method = "put"
        /\ calls[k].endpoint = "adjust_inventory"
        /\ calls[k].id = last.shorepos_id}

\* The remote quantity was written to the quant, and nothing was pushed.
RemoteWritten ==
    /\ quant[last.variant].exists
    /\ quant[last.variant].quantity = last.remote_qty
    /\ AdjustCalls = {}

\* An adjustment was pushed, and the local quantity is what it was.
LocalPushed ==
    /\ AdjustCalls # {}
    /\ quant[last.variant].exists = last.had_quant
    /\ qty_available(last.variant) = last.local_qty

\* C3: when the timestamps are compared, the strictly greatest decides: a
\* remote timestamp greater than the local and the legacy one has the remote
\* quantity written locally and no adjustment pushed; a local or legacy
\* timestamp greater than the remote one has an adjustment pushed and the
\* local quantity kept.  A missing local or legacy timestamp is the minimum, 0.
C3_StrictMaximumDecides ==
    StockDecided =>
        /\ (last.remote_ts > last.local_ts /\ last.remote_ts > last.woo_ts) => RemoteWritten
        /\ (last.local_ts > last.remote_ts \/ last.woo_ts > last.remote_ts) => LocalPushed

C3_Witness ==
    /\ StockDecided
    /\ last.woo_ts > last.remote_ts
    /\ last.remote_ts > last.local_ts
    /\ LocalPushed

\* C4 as stated: when the local timestamp equals the remote one and the
\* quantities differ, no inventory adjustment is pushed.
C4_TieNeverPushes ==
    (StockDecided /\ last.local_ts = last.remote_ts /\ last.local_qty # last.remote_qty)
        => AdjustCalls = {}

\* C4: when the local timestamp equals the remote one, the quantities differ
\* and the legacy timestamp is not later than them, no inventory adjustment
\* is pushed and the remote quantity is written locally.
C4_TieWithoutLaterLegacy ==
    (/\ StockDecided
     /\ last.local_ts = last.remote_ts
     /\ last.local_qty # last.remote_qty
     /\ last.woo_ts <= last.remote_ts)
        => RemoteWritten

C4_Witness ==
    /\ StockDecided
    /\ last.had_quant
    /\ last.local_ts = last.remote_ts
    /\ last.local_qty # last.remote_qty
    /\ last.woo_ts <= last.remote_ts
    /\ RemoteWritten

\* C9: an error raised while one product is reconciled does not abort the
\* stock stage: the stage goes on with the products that are left.
C9_StockErrorContained ==
    (/\ job.stage = "stock"
     /\ StockDecided
     /\ AdjustCalls # {}
     /\ \E k \in AdjustCalls : calls[k].raised)
        => job.pc # "failed"


\* The last iteration found the remote timestamp the latest.
RemoteWon == last.op = "stock" /\ last.kind = "remote"

\* C17: after a remote-wins outcome the quant of the product at the
\* warehouse location holds the remote quantity (a quant that did not exist
\* is created with the store identifier), the stock watermark of the variant
\* and of its template is the remote time_modified, and no call is made for
\* the product.
C17_RemoteWinsWritesLocal ==
    RemoteWon =>
        LET v == last.variant
        IN  /\ last.remote_ts = latest_timestamp(last.local_ts, last.remote_ts, last.woo_ts)
            /\ quant[v].exists
            /\ quant[v].quantity = last.remote_qty
            /\ ~last.had_quant =>
                  quant[v].shorepos_store_identifier = config.settings_shorepos_store_identifier
            /\ prod[v].shorepos_stock_last_sync = last.remote_ts
            /\ tmpl[product_tmpl_id(v)].shorepos_stock_last_sync = last.remote_ts
            /\ AdjustCalls = {}
            /\ \A k \in 1..Len(calls) : calls[k].tmpl # product_tmpl_id(v)
            /\ remote.quantity[last.shorepos_id] = last.remote_qty

\* Product 1 had no quant; the remote held one unit, modified at time 2.
C17_Witness ==
    /\ RemoteWon
    /\ last.variant = 1
    /\ ~last.had_quant
    /\ last.remote_qty = 1
    /\ last.remote_ts = 2
    /\ quant[1] = quant_create(OwnStore, 1)
    /\ prod[1].shorepos_stock_last_sync = 2
    /\ tmpl[1].shorepos_stock_last_sync = 2


\* The last iteration found the local or the legacy timestamp later than
\* the remote one.
LocalWon == last.op = "stock" /\ last.kind = "local"

\* C18: in a local-wins outcome one inventory adjustment is sent with
\* delta = local available quantity - remote quantity; once it is accepted
\* the remote quantity equals the local available quantity and the product
\* is recorded as updated in this run; the local quantity is not changed.
C18_LocalWinsPushesDelta ==
    (LocalWon /\ job.stage = "stock") =>
        LET v == last.variant
        IN  /\ Cardinality(AdjustCalls) = 1
            /\ \A k \in AdjustCalls : calls[k].delta = last.local_qty - last.remote_qty
            /\ qty_available(v) = last.local_qty
            /\ quant[v].exists = last.had_quant
            /\ last.status = HTTP_OK =>
                  /\ remote.quantity[last.shorepos_id] = last.local_qty
                  /\ \E k \in 1..Len(job.updated) :
                        job.updated[k] = [variant |-> v, id |-> last.shorepos_id]

\* One unit on hand, none in the shop: an adjustment of +1 was accepted.
C18_Witness ==
    /\ LocalWon
    /\ job.stage = "stock"
    /\ last.status = HTTP_OK
    /\ last.local_qty = 1
    /\ last.remote_qty = 0
    /\ \E k \in AdjustCalls : calls[k].delta = 1 /\ ~calls[k].raised
    /\ remote.quantity[last.shorepos_id] = 1
    /\ job.updated # <<>>


\* The last step was a quantity write of the operator or of a stock move.
QuantityWritten == last.op = "write"

\* C19: the manual-change timestamp of a quant is set to now by a quantity
\* write without the stock-move and external-sync flags and is left as it
\* was by a quantity write with one of the flags; the remote-wins write of
\* the stock stage leaves it as it was.
C19_ManualTimestampOnlyUnflagged ==
    /\ QuantityWritten =>
          /\ quant[last.variant].quantity # last.before.quantity
          /\ quant[last.variant].stock_quantity_last_update =
                IF last.ctx.from_stock_move \/ last.ctx.from_external_sync
                THEN last.before.stock_quantity_last_update
                ELSE last.time
    /\ RemoteWon =>
          quant[last.variant].stock_quantity_last_update = last.local_ts

\* The quant of product 1, changed by hand at time 1, took the remote
\* quantity at time 2 and still carries time 1.
C19_Witness ==
    /\ RemoteWon
    /\ last.variant = 1
    /\ last.had_quant
    /\ last.local_ts = 1
    /\ last.time = 2
    /\ last.local_qty # last.remote_qty
    /\ quant[1].quantity = last.remote_qty
    /\ quant[1].stock_quantity_last_update = 1


\* C30: when the manual-change timestamp of the quant equals the remote
\* time_modified, the comparison takes the else branch and local wins: the
\* remote quantity is not written to the quant.
C30_TieResolvesToLocal ==
    (StockDecided /\ last.had_quant /\ last.local_ts = last.remote_ts) =>
        /\ last.kind = "local"
        /\ qty_available(last.variant) = last.local_qty

\* The products the next push stage would send do not change, and no
\* write_date changes.
PushSetKept ==
    /\ \A t \in Templates : tmpl'[t].write_date = tmpl[t].write_date
    /\ \A t \in Templates :
          (tmpl[t].odoo_to_shorepos_last_sync # 0
              /\ ~(tmpl[t].odoo_to_shorepos_last_sync < tmpl[t].write_date)) =>
                ~(tmpl'[t].odoo_to_shorepos_last_sync = 0
                    \/ tmpl'[t].odoo_to_shorepos_last_sync < tmpl'[t].write_date)

\* C35: the watermark updates of a stock stage (remote-wins and the second
\* pass) do not change the write_date of a product, so a product that was
\* not modified since its last push is not in the to-sync set of the next
\* push stage after any number of stock stages.
C35_WatermarkKeepsWriteDate == [][job.stage = "stock" => PushSetKept]_vars

\* A stock stage has set the watermark of product 1 in a remote-wins step
\* or in its second pass; the product is still unmodified since its push.
C35_Witness ==
    /\ job.stage = "stock"
    /\ job.pc = "done"
    /\ tmpl[1].shorepos_stock_last_sync # 0
    /\ prod[1].shorepos_stock_last_sync # 0
    /\ tmpl[1].odoo_to_shorepos_last_sync # 0
    /\ tmpl[1].write_date <= tmpl[1].odoo_to_shorepos_last_sync
    /\ 1 \notin PushSelection

----------------------------------------------------------------------------
(* Properties of the catalogue stages (SpecCatalog) *)

\* The push stage is at product t.
PushAt(t) == job.stage = "push" /\ job.pc = "run" /\ job.todo # <<>> /\ Head(job.todo) = t

\* The last iteration of the push loop sent the product (its SKU is not too long).
Pushed == last.op = "push" /\ ~last.skipped

\* The product has been pushed and not been written since.
Unmodified(t) ==
    /\ tmpl[t].odoo_to_shorepos_last_sync # 0
    /\ ~(tmpl[t].odoo_to_shorepos_last_sync < tmpl[t].write_date)

\* The linkage of product t holds the id the remote returned to the last call.
Linked(t) ==
    /\ last.returned \in RemoteIds
    /\ remote.exists[last.returned]
    /\ tmpl[t].shorepos_id = last.returned
    /\ tmpl[t].shorepos_store_identifier = config.settings_shorepos_store_identifier
    /\ tmpl[t].odoo_to_shorepos_last_sync = last.time

\* C5: a product with an external id gets exactly one PUT to that id, and a
\* POST after it exactly when the PUT answers 404; a product without one gets
\* one POST and no PUT.  When the final call succeeds the external id is the
\* returned id, the store identifier the configuration's and the last-push
\* timestamp the time of the push.
C5_PutThenPostOn404 ==
    Pushed =>
        LET c == last.calls
        IN  /\ IF last.shorepos_id # 0
               THEN /\ Len(c) \in {1, 2}
                    /\ c[1].method = "put" /\ c[1].id = last.shorepos_id
                    /\ Len(c) = 2 <=> c[1].status = HTTP_NOT_FOUND
                    /\ Len(c) = 2 => c[2].method = "post"
               ELSE Len(c) = 1 /\ c[1].method = "post"
            /\ \A k \in 1..Len(c) : c[k].endpoint = "products" /\ c[k].tmpl = last.tmpl
            /\ c[Len(c)].status = HTTP_OK => Linked(last.tmpl)

C5_Witness ==
    /\ Pushed
    /\ Len(last.calls) = 2
    /\ last.calls[1].status = HTTP_NOT_FOUND
    /\ last.calls[2].status = HTTP_OK
    /\ Linked(last.tmpl)

\* The first half of the round trip: a product without external id is sent
\* with one POST; when it succeeds the linkage is populated and the product
\* is left unmodified by the write of the linkage.
PostLinks ==
    (Pushed /\ last.shorepos_id = 0) =>
        /\ Len(last.calls) = 1
        /\ last.calls[1].method = "post"
        /\ last.ok => (Linked(last.tmpl) /\ Unmodified(last.tmpl))

\* The second half: a step of the push stage issues calls only for a product
\* that was never pushed or was written after its last push.
CallsOnlyForModified ==
    (job.stage = "push" /\ Len(calls') > Len(calls)) =>
        /\ last'.op = "push"
        /\ \A k \in (Len(calls) + 1)..Len(calls') : calls'[k].tmpl = last'.tmpl
        /\ ~Unmodified(last'.tmpl)

\* C6: the round trip of the push stage: a product whose external id is
\* unset is pushed with a POST and its linkage is populated with the returned
\* id; while it is not modified afterwards the push stage issues no call for
\* it, the stage's own write of the linkage not being a modification.
C6_RoundTrip == []PostLinks /\ [][CallsOnlyForModified]_vars

\* A later push stage has ended without a call for product 2, which an
\* earlier one had created and linked.
C6_Witness ==
    /\ job.stage = "push"
    /\ job.pc = "done"
    /\ tmpl[2].sync_to_shorepos
    /\ tmpl[2].shorepos_id # 0
    /\ Unmodified(2)
    /\ \A k \in 1..Len(calls) : calls[k].tmpl # 2

\* The four linkage fields of product t are unset.
LinkageCleared(t) ==
    /\ tmpl[t].shorepos_id = 0
    /\ tmpl[t].shorepos_store_identifier = NoStore
    /\ tmpl[t].odoo_to_shorepos_last_sync = 0
    /\ tmpl[t].shorepos_stock_last_sync = 0

\* C7: when the DELETE of a selected product answers success or 404, its
\* external id, store identifier, last-push timestamp and stock watermark are
\* unset, and the stage does not fail.
C7_DeleteClearsLinkage ==
    /\ job.stage = "delete" => job.pc # "failed"
    /\ (last.op = "delete" /\ last.status \in {HTTP_OK, HTTP_NOT_FOUND}) =>
            /\ last.shorepos_id # 0
            /\ LinkageCleared(last.tmpl)

C7_Witness ==
    /\ last.op = "delete"
    /\ last.status = HTTP_NOT_FOUND
    /\ LinkageCleared(last.tmpl)
    /\ job.pc # "failed"

\* C8: after a DELETE that answers success or 404, neither the product nor
\* any of its variants carries an external id or a store identifier.
C8_VariantsCleared ==
    (last.op = "delete" /\ last.status \in {HTTP_OK, HTTP_NOT_FOUND}) =>
        /\ LinkageCleared(last.tmpl)
        /\ \A v \in product_variant_ids(last.tmpl) :
              /\ prod[v].shorepos_id = 0
              /\ prod[v].shorepos_store_identifier = NoStore

\* C10: no call made through the request operation hands a 429 to its
\* caller: the request is issued again until another status arrives.
C10_NoCallRaises429 ==
    \A k \in 1..Len(calls) : calls[k].status = HTTP_TOO_MANY => ~calls[k].raised


\* The linkage fields of a variant.
VariantLinkage(rec) ==
    <<rec.shorepos_id, rec.shorepos_store_identifier, rec.odoo_to_shorepos_last_sync>>

\* The returned variations whose product code is the SKU code of variant v.
Matching(variations, v) ==
    {k \in 1..Len(variations) : variations[k].product_code = prod[v].default_code}

\* After the successful push of a product with several variants, a variant
\* whose code a returned variation carries has the id of such a variation,
\* the store identifier and the time of the push; every other variant is as
\* it was.
VariantsMatchedStep ==
    \A t \in Templates :
        (PushAt(t) /\ last'.op = "push" /\ last'.ok /\ Cardinality(product_variant_ids(t)) > 1) =>
            \A v \in Variants :
                IF v \in product_variant_ids(t) /\ Matching(last'.variations, v) # {}
                THEN /\ \E k \in Matching(last'.variations, v) :
                            prod'[v].shorepos_id = last'.variations[k].id
                     /\ prod'[v].shorepos_id # 0
                     /\ prod'[v].shorepos_store_identifier = config.settings_shorepos_store_identifier
                     /\ prod'[v].odoo_to_shorepos_last_sync = now
                ELSE prod'[v] = prod[v]

\* C16: after a multi-variant product is created remotely, each variant
\* whose SKU code is the product code of a returned variation carries that
\* variation's id as external id, with the active store identifier and a
\* last-push timestamp; a variant without matching variation keeps its
\* linkage fields.
C16_VariantsMatchedBySku == [][VariantsMatchedStep]_vars

\* Product 2 was created with a POST; variant 2 carries the id of the first
\* returned variation, variant 3 has no SKU code and is not linked.
C16_Witness ==
    /\ Pushed
    /\ last.tmpl = 2
    /\ last.ok
    /\ last.calls[Len(last.calls)].method = "post"
    /\ Len(last.variations) = 2
    /\ prod[2].shorepos_id = last.variations[1].id
    /\ prod[2].shorepos_store_identifier = OwnStore
    /\ prod[3].default_code = NoCode
    /\ VariantLinkage(prod[3]) = <<0, NoStore, 0>>

\* C34: after any sequence of push and delete stages the linkage is
\* injective: no two products carry one external id, and no two variants
\* carry one external id.
C34_LinkageInjective ==
    /\ \A t, u \in Templates :
          (t # u /\ tmpl[t].shorepos_id # 0) => tmpl[t].shorepos_id # tmpl[u].shorepos_id
    /\ \A v, w \in Variants :
          (v # w /\ prod[v].shorepos_id # 0) => prod[v].shorepos_id # prod[w].shorepos_id


----------------------------------------------------------------------------
(* Properties of shorepos_api_request_all (SpecPages) *)

\* The answers of the running listing that carried a body.
OkCalls == SelectSeq(calls, LAMBDA c : c.status = HTTP_OK)

RECURSIVE Flatten(_)
\* The items of a sequence of answers, in order.
Flatten(cs) == IF cs = <<>> THEN <<>> ELSE Head(cs).items \o Flatten(Tail(cs))

\* Every answer so far is a mapping with its items under `results` or `data`.
Mapped == \A k \in 1..Len(OkCalls) : OkCalls[k].shape \in {"results", "data"}

\* The page limit of the running listing: the caller's, or 100.
LimitInForce == IF "limit" \in DOMAIN job.given THEN job.given["limit"] ELSE 100

\* C11: with mapped page responses and page limit L (100 unless the caller
\* overrides), the pages 1, 2, ... are requested in order with limit L, the
\* listing ends with the first page of fewer than L items and with no other,
\* and it returns the items of all fetched pages in order; without a 429 or
\* an error, k full pages and a short one take exactly k + 1 requests.
C11_PagesInOrder ==
    (job.stage = "request_all" /\ Mapped) =>
        LET ok == OkCalls
        IN  /\ \A k \in 1..Len(calls) : calls[k].params["limit"] = LimitInForce
            /\ \A i \in 1..Len(ok) : ok[i].params["page"] = i
            /\ \A i \in 1..Len(ok) :
                  Len(ok[i].items) < LimitInForce <=> (i = Len(ok) /\ job.pc = "returned")
            /\ job.pc = "returned" =>
                  /\ ok # <<>>
                  /\ job.items_all = Flatten(ok)
                  /\ job.items_all = Items(0, Len(job.items_all))
                  /\ Len(ok) = Len(calls) =>
                        Len(job.items_all) = (Len(calls) - 1) * LimitInForce + Len(ok[Len(ok)].items)

\* Pages of 100, 100 and 40 items under the default limit: 3 requests, 240 items.
C11_Witness ==
    /\ job.stage = "request_all"
    /\ job.pc = "returned"
    /\ job.given = NoParams
    /\ Mapped
    /\ Len(calls) = 3
    /\ Len(calls[3].items) = 40
    /\ job.items_all = Items(0, 240)


\* The answers of the running listing that were a 429.
LimitedCalls == SelectSeq(calls, LAMBDA c : c.status = HTTP_TOO_MANY)

\* The waits of the running listing that were not the pause between pages.
Waits == SelectSeq(job.slept, LAMBDA s : s # 0)

\* C12: a page request answered 429 is waited out for Retry-After seconds (1
\* when the header is absent) and issued again for the same page with the
\* same parameters; the 429 is not raised, and the result is the items of
\* the pages answered 200, in order, none lost and none twice.
C12_RetrySamePage ==
    job.stage = "request_all" =>
        /\ \A k \in 1..Len(calls) :
              calls[k].status = HTTP_TOO_MANY =>
                 IF k < Len(calls)
                 THEN /\ calls[k + 1].params = calls[k].params
                      /\ calls[k + 1].method = calls[k].method
                      /\ calls[k + 1].endpoint = calls[k].endpoint
                 ELSE /\ job.pc = "request"
                      /\ job.params @@ ("page" :> job.page) = calls[k].params
        /\ Len(Waits) = Len(LimitedCalls)
        /\ \A k \in 1..Len(LimitedCalls) :
              Waits[k] = IF LimitedCalls[k].retry_after = <<>> THEN 1
                         ELSE LimitedCalls[k].retry_after[1]
        /\ (job.pc = "returned" /\ Mapped) =>
              /\ job.items_all = Flatten(OkCalls)
              /\ job.items_all = Items(0, Len(job.items_all))

\* A full page, a 429 with Retry-After: 2, then the second page.
C12_Witness ==
    /\ job.stage = "request_all"
    /\ job.pc = "returned"
    /\ Len(calls) = 3
    /\ calls[1].status = HTTP_OK
    /\ calls[2].status = HTTP_TOO_MANY
    /\ calls[2].retry_after = <<2>>
    /\ calls[3].status = HTTP_OK
    /\ calls[3].params["page"] = 2
    /\ job.slept = <<0, 2>>
    /\ Len(job.items_all) > job.params["limit"]

\* C32: every answer that is not a 429 ends the listing or advances the
\* page: a page is requested twice in a row only after a 429, also when the
\* answer is a non-empty mapping without `results` list and without `data`.
C32_ProgressOnEveryAnswer ==
    job.stage = "request_all" =>
        \A k \in 1..Len(calls) :
            calls[k].status # HTTP_TOO_MANY =>
                IF k < Len(calls)
                THEN calls[k + 1].params["page"] > calls[k].params["page"]
                ELSE job.pc \in {"returned", "raised"} \/ job.page > calls[k].params["page"]


----------------------------------------------------------------------------
(* Properties of the push stage (SpecPush) *)

\* The linkage fields of a template.
PushLinkage(rec) ==
    <<rec.shorepos_id, rec.shorepos_store_identifier, rec.odoo_to_shorepos_last_sync>>

\* No call of the running stage is for a product with a code of more than
\* 30 characters.
NoCallForLongCode ==
    job.stage = "push" =>
        \A k \in 1..Len(calls) : tmpl[calls[k].tmpl].default_code_len <= MaxCodeLen

\* The iteration of a product with a code of more than 30 characters makes
\* no call and changes no record, and the stage goes on.
LongCodeStep ==
    \A t \in Templates :
        (PushAt(t) /\ tmpl[t].default_code_len > MaxCodeLen) =>
            /\ calls' = calls
            /\ remote' = remote
            /\ tmpl' = tmpl
            /\ prod' = prod
            /\ job'.todo = Tail(job.todo)

\* C13: the push stage skips every product whose SKU code is longer than 30
\* characters: no category, tax, image, PUT or POST call is made for it, and
\* its linkage fields are unchanged.
C13_LongCodeSkipped == []NoCallForLongCode /\ [][LongCodeStep]_vars

\* The stage is over; product 1 has a code of 31 characters, a category, a
\* tax and an image to sync, and the calls of the stage are those of
\* product 2.
C13_Witness ==
    /\ job.stage = "push"
    /\ job.pc = "done"
    /\ tmpl[1].default_code_len = MaxCodeLen + 1
    /\ HelperKinds(1) = <<"category", "image", "tax">>
    /\ PushLinkage(tmpl[1]) = <<0, NoStore, 0>>
    /\ calls # <<>>
    /\ \A k \in 1..Len(calls) : calls[k].tmpl = 2


\* The push of the product of this step ended with a request that raised.
PushRaised ==
    /\ Len(calls') > Len(calls)
    /\ calls'[Len(calls')].endpoint = "products"
    /\ calls'[Len(calls')].raised

\* A push that raised leaves the linkage of the product and of its variants
\* as it was, and the loop goes to the next product.
PushErrorStep ==
    \A t \in Templates :
        (PushAt(t) /\ PushRaised) =>
            /\ PushLinkage(tmpl'[t]) = PushLinkage(tmpl[t])
            /\ tmpl' = tmpl
            /\ prod' = prod
            /\ job'.stage = "push"
            /\ job'.todo = Tail(job.todo)
            /\ job'.pc = IF job'.todo = <<>> THEN "done" ELSE "run"

\* The push stage never fails, and it ends with nothing left to do.
PushNeverFails ==
    job.stage = "push" =>
        /\ job.pc \in {"run", "done"}
        /\ job.pc = "done" => job.todo = <<>>

FailedHelpers == {k \in 1..Len(last.helper_ids) : last.helper_ids[k] = 0}

\* The reference of the payload that the k-th helper of the product resolves
\* is absent.
RefAbsent(kind) ==
    CASE kind = "category" -> last.refs.categories = <<>>
      [] kind = "image" -> last.refs.images = <<>>
      [] OTHER -> last.refs.tax_type = 0

----------------------------------------------------------------------------
(* Properties of the delete stage executed twice (SpecDelete) *)

\* The delete stage is at product t.
DeleteAt(t) == job.stage = "delete" /\ job.pc = "run" /\ job.todo # <<>> /\ Head(job.todo) = t

\* The DELETE of this step failed with an error other than 404.
DeleteRaised ==
    /\ Len(calls') > Len(calls)
    /\ calls'[Len(calls')].raised
    /\ calls'[Len(calls')].status # HTTP_NOT_FOUND

\* A failed DELETE changes no record, the product is still pending deletion,
\* and the loop goes to the next product.
DeleteErrorStep ==
    \A t \in Templates :
        (DeleteAt(t) /\ DeleteRaised) =>
            /\ tmpl' = tmpl
            /\ prod' = prod
            /\ t \in DeleteSelection'
            /\ job'.stage = "delete"
            /\ job'.todo = Tail(job.todo)
            /\ job'.pc = IF job'.todo = <<>> THEN "done" ELSE "run"

\* The products whose DELETE in the calls cs was answered with one of sts.
Answered(cs, sts) == {cs[k].tmpl : k \in {i \in 1..Len(cs) : cs[i].status \in sts}}

\* The next execution selects the products whose DELETE failed, and an
\* execution that is done has called the DELETE of every product it selected.
DeleteSelectsFailedAgain ==
    /\ job.stage = "delete" => job.pc \in {"run", "done"}
    /\ (job.stage = "delete" /\ "first" \in DOMAIN job) =>
          /\ Answered(job.first.calls, Statuses \ {HTTP_OK, HTTP_NOT_FOUND}) \subseteq job.selected
          /\ job.pc = "done" => job.selected = {calls[k].tmpl : k \in 1..Len(calls)}

\* C15: in the delete stage a DELETE that fails with an error other than 404
\* leaves the linkage fields of the product unchanged, the product stays
\* pending deletion and is selected by the next delete stage, and every
\* later selected product is processed.
C15_DeleteErrorContained == []DeleteSelectsFailedAgain /\ [][DeleteErrorStep]_vars

\* The DELETE of product 1 was answered 500 and the DELETE of product 2 was
\* sent after it; the second execution selected product 1 again.
C15_Witness ==
    /\ job.stage = "delete"
    /\ "first" \in DOMAIN job
    /\ Len(job.first.calls) = 2
    /\ job.first.calls[1].tmpl = 1
    /\ job.first.calls[1].status = HTTP_SERVER_ERROR
    /\ job.first.calls[2].tmpl = 2
    /\ 1 \in job.selected
    /\ tmpl[1].shorepos_id = 1
    /\ job.pc = "done"


\* The first execution had no DELETE that failed with an error other than 404.
FirstAllSettled ==
    \A k \in 1..Len(job.first.calls) : job.first.calls[k].status \in {HTTP_OK, HTTP_NOT_FOUND}

\* The second execution makes no call for a product whose DELETE was
\* answered success or 404 in the first.
NoSecondCallForSettled ==
    \A k \in 1..Len(calls) :
        calls[k].tmpl \notin Answered(job.first.calls, {HTTP_OK, HTTP_NOT_FOUND})

\* The records are those the first execution ended with.
SameAsAfterFirst == tmpl = job.first.tmpl /\ prod = job.first.prod

----------------------------------------------------------------------------
(* Properties of shorepos_token_get (SpecToken) *)

\* The last step was a call of shorepos_token_get.
TokenCalled == last.op = "token"

\* The stored access token, refresh token and expiry.
StoredToken(cfg) ==
    <<cfg.settings_shorepos_access_token, cfg.settings_shorepos_refresh_token,
      cfg.settings_shorepos_token_expiry_date>>

\* C25: when the store identifier, the base URL, the client id, the client
\* secret, the refresh token or the timeout is empty, the token refresh
\* makes no request, raises nothing, returns failure, and leaves the stored
\* access token, refresh token and expiry as they were.
C25_MissingSettingsFailFast ==
    (/\ TokenCalled
     /\ \/ last.before.unset # {}
        \/ last.before.settings_shorepos_refresh_token = 0)
        => /\ last.posts = 0
           /\ last.ret = "False"
           /\ StoredToken(config) = StoredToken(last.before)
           /\ config = last.before

\* The timeout is empty; the endpoint would have answered with a token.
C25_Witness ==
    /\ TokenCalled
    /\ last.before.unset = {"timeout"}
    /\ last.before.settings_shorepos_refresh_token # 0
    /\ last.resp.status = HTTP_OK
    /\ last.resp.access_token # 0
    /\ last.posts = 0
    /\ last.ret = "False"

\* The last call of shorepos_token_get got an access token.
Refreshed == TokenCalled /\ last.ret = "None"

\* The fields a refresh may write.
TokenFields ==
    {"settings_shorepos_access_token", "settings_shorepos_refresh_token",
     "settings_shorepos_token_expiry_date"}

\* C26: a successful token refresh stores the new access token; the stored
\* refresh token changes only when the answer carries one that differs from
\* it, and is then that one; the stored expiry changes only when the answer
\* carries expires_in, and is then now + expires_in; no other field of the
\* configuration changes.
C26_RefreshWritesOnlyTokenFields ==
    Refreshed =>
        LET b == last.before
            r == last.resp
        IN  /\ config.settings_shorepos_access_token = r.access_token
            /\ config.settings_shorepos_refresh_token =
                  IF r.refresh_token # 0 /\ r.refresh_token # b.settings_shorepos_refresh_token
                  THEN r.refresh_token ELSE b.settings_shorepos_refresh_token
            /\ config.settings_shorepos_token_expiry_date =
                  IF r.expires_in # 0 THEN last.time + r.expires_in
                  ELSE b.settings_shorepos_token_expiry_date
            /\ \A k \in DOMAIN config \ TokenFields : config[k] = b[k]

\* The endpoint returned a new access token, a new refresh token and
\* expires_in = 1; all three are stored.
C26_Witness ==
    /\ Refreshed
    /\ last.before.settings_shorepos_access_token = OldToken
    /\ last.before.settings_shorepos_refresh_token = OldToken
    /\ last.resp.refresh_token = 1
    /\ last.resp.expires_in = 1
    /\ StoredToken(config) = <<last.resp.access_token, 1, last.time + 1>>

\* C27: when the token endpoint answers 200 without an access token, the
\* refresh returns failure without raising and writes nothing: the access
\* token, the refresh token and the expiry keep their values, whatever
\* refresh token or expires_in the answer carries.
C27_NoAccessTokenNothingStored ==
    (/\ TokenCalled
     /\ last.posts > 0
     /\ last.resp.status = HTTP_OK
     /\ last.resp.access_token = 0)
        => /\ last.ret = "False"
           /\ last.posts = 1
           /\ config = last.before

\* The answer carried a new refresh token and expires_in but no access token.
C27_Witness ==
    /\ TokenCalled
    /\ last.posts = 1
    /\ last.resp.status = HTTP_OK
    /\ last.resp.access_token = 0
    /\ last.resp.refresh_token = 1
    /\ last.resp.expires_in = 1
    /\ last.before.settings_shorepos_refresh_token = OldToken
    /\ last.ret = "False"
    /\ StoredToken(config) = StoredToken(last.before)

\* C28: the token refresh returns True when a new access token was obtained
\* and stored, and False otherwise.
C28_ReturnsSuccessBoolean ==
    TokenCalled =>
        /\ last.ret \in {"True", "False"}
        /\ last.ret = "True" <=>
              (last.posts > 0 /\ last.resp.status = HTTP_OK /\ last.resp.access_token # 0)

----------------------------------------------------------------------------
(* Properties of the sync run while the clock advances (SpecExpiry) *)

\* Each log holds at most one row.
OneLogRow == \A m \in LogModels : Len(logs[m]) <= 1

\* A step that changes a log is the log stage of that log: the log holds
\* one row afterwards, created or updated, with the timestamp now, which is
\* not earlier than the one it had; the other log does not change.
LogUpsertStep ==
    \A m \in LogModels :
        logs'[m] # logs[m] =>
            /\ job.stage \in {"stock_log", "log"}
            /\ m = LogModelOf(job.stage)
            /\ logs'[m] = <<now>>
            /\ logs[m] # <<>> => logs[m][1] <= logs'[m][1]
            /\ \A o \in LogModels \ {m} : logs'[o] = logs[o]

\* Every execution of a log stage leaves its log with the timestamp now.
LogStageWrites ==
    (job.stage \in {"stock_log", "log"} /\ job.pc = "done") => logs[LogModelOf(job.stage)] = <<now>>

\* C29: after any sequence of log-stage executions each of the two sync
\* logs holds at most one row: the first execution creates it, every later
\* one sets the last-sync timestamp of that row to now, and the timestamp
\* never decreases.
C29_LogUpsert == [](OneLogRow /\ LogStageWrites) /\ [][LogUpsertStep]_vars

\* The general log stage of the second run is done at time 2, after the one
\* of the first run at time 1: one row, with timestamp 2.
C29_Witness ==
    /\ job.stage = "log"
    /\ job.pc = "done"
    /\ job.run = 2
    /\ now = 2
    /\ trace[1] # <<>>
    /\ trace[1][Len(trace[1])] = <<"log", "done">>
    /\ logs["shorepos.sync.log"] = <<2>>
    /\ Len(logs["shorepos.stock.sync.log"]) = 1

----------------------------------------------------------------------------
(* SpecUnparseable properties *)

\* The last iteration came to the comparison of a product whose remote
\* time_modified cannot be parsed.
ComparedUnparseable ==
    /\ job.stage = "stock"
    /\ last.op = "stock"
    /\ last.kind \notin {"absent", "equal"}
    /\ job.map.time_modified[last.shorepos_id] = Unparseable

\* C37: a remote time_modified that cannot be parsed counts as the minimum
\* timestamp: the comparison does not raise, and the remote wins only if the
\* local and the legacy timestamp are at the minimum too.
C37_UnparseableIsMinimum ==
    ComparedUnparseable =>
        /\ job.pc # "failed"
        /\ last.kind \in {"remote", "local"}
        /\ last.kind = "remote" <=> (last.local_ts = 0 /\ last.woo_ts = 0)

----------------------------------------------------------------------------
(* SpecCategories properties *)

\* C38: every entry of the `categories` list of a payload that the push
\* stage sends carries the id of a resolved remote category, never None,
\* also when some of the category calls made for the payload fail.
C38_CategoriesResolved ==
    (job.stage = "push" /\ Pushed) =>
        \A k \in 1..Len(last.refs.categories) : last.refs.categories[k].id # 0

----------------------------------------------------------------------------
(* SpecForeign properties *)

\* The product belongs to another store than the one of the configuration.
Foreign(t) ==
    tmpl[t].shorepos_store_identifier \notin {NoStore, config.settings_shorepos_store_identifier}

\* C33: the push stage makes no remote call for a product whose store
\* identifier is set and is not the one of the configuration, and does not
\* overwrite its external id or its store identifier.
C33_ForeignProductUntouched ==
    [][\A t \in Templates :
          (PushAt(t) /\ Foreign(t)) =>
              /\ last'.calls = <<>>
              /\ tmpl'[t].shorepos_id = tmpl[t].shorepos_id
              /\ tmpl'[t].shorepos_store_identifier = tmpl[t].shorepos_store_identifier]_vars

----------------------------------------------------------------------------
(* SpecRepush properties *)

PostsFor(cs, t) ==
    {k \in 1..Len(cs) : cs[k].method = "post" /\ cs[k].endpoint = "products" /\ cs[k].tmpl = t}

\* The remote products that the POSTs of the first execution created for
\* product t: the one whose id was written to the product, and those whose
\* answer was lost.
StoredByFirst(t) ==
    LET cs == job.first.calls
    IN  {cs[k].stored : k \in {j \in PostsFor(cs, t) : "stored" \in DOMAIN cs[j]}}
        \cup {job.first.tmpl[t].shorepos_id : k \in {j \in PostsFor(cs, t) : ~cs[j].raised}}

\* C21: once a POST for a local product has succeeded on the remote, the
\* push stage executed again issues no other POST for that product while the
\* remote product still exists.
C21_NoSecondPost ==
    (job.stage = "push" /\ "first" \in DOMAIN job) =>
        \A t \in Templates :
            (\E id \in StoredByFirst(t) : remote.exists[id]) => PostsFor(calls, t) = {}

----------------------------------------------------------------------------
(* SpecRestock properties *)

\* The variants whose quantity the running stock stage sent to the remote.
LocalWins == {job.updated[k].variant : k \in 1..Len(job.updated)}

ListingCalls == {k \in 1..Len(calls) : calls[k].method = "get" /\ calls[k].endpoint = "products"}

\* The step of the second pass: the second listing was answered.
SecondPass == job.stage = "stock" /\ job.pc = "refetch" /\ job'.pc = "done"

SecondPassWrites ==
    /\ \A v \in Variants :
          prod'[v].shorepos_stock_last_sync =
              IF v \in LocalWins /\ MapHas(StockMap(remote'), product_shorepos_id(v))
              THEN remote'.time_modified[product_shorepos_id(v)]
              ELSE prod[v].shorepos_stock_last_sync
    /\ \A t \in Templates :
          (product_variant_ids(t) \cap LocalWins = {}) =>
              tmpl'[t].shorepos_stock_last_sync = tmpl[t].shorepos_stock_last_sync

\* C31: a stock stage fetches the listing a second time only if a product
\* was local-wins in it, and a stage that got through its products fetches
\* it a second time exactly if one was; the second pass sets the watermark
\* of every local-wins product that the second listing holds to its
\* time_modified there, and leaves the watermark of every other product as
\* it was.
C31_SecondFetchIffLocalWins ==
    /\ [](job.stage = "stock" =>
            /\ Cardinality(ListingCalls) <= 2
            /\ Cardinality(ListingCalls) = 2 => LocalWins # {}
            /\ job.pc = "done" => (Cardinality(ListingCalls) = 2 <=> LocalWins # {}))
    /\ [][SecondPass => SecondPassWrites]_vars

C31_Witness ==
    /\ job.stage = "stock"
    /\ job.pc = "done"
    /\ Cardinality(ListingCalls) = 2
    /\ \E v \in LocalWins, w \in StockSelection \ LocalWins :
          /\ prod[v].shorepos_stock_last_sync = remote.time_modified[product_shorepos_id(v)]
          /\ prod[w].shorepos_stock_last_sync # remote.time_modified[product_shorepos_id(w)]

SecondStock == job.stage = "stock" /\ "first" \in DOMAIN job

FirstQty(v) == IF job.first.quant[v].exists THEN job.first.quant[v].quantity ELSE 0

\* C22: the stock stage executed again right after it completed, with no
\* change in between, sends no inventory adjustment and changes no local
\* quantity, and when it is done the local and the remote quantity of every
\* product it reconciled are equal.
C22_StockReexecutionIdempotent ==
    SecondStock =>
        /\ \A k \in 1..Len(calls) : calls[k].endpoint # "adjust_inventory"
        /\ \A v \in Variants : qty_available(v) = FirstQty(v)
        /\ job.pc = "done" =>
              \A v \in StockSelection :
                  MapHas(StockMap(remote), product_shorepos_id(v)) =>
                      qty_available(v) = remote.quantity[product_shorepos_id(v)]

====
